---- MODULE Spec2Model ----
(***************************************************************************)
(* The luna vault of gleamprodev/v1-contracts: the bonding / unbonding     *)
(* ledger (contracts/luna-vault/src/commands.rs) and the flash-loan        *)
(* protocol (contracts/luna-vault/src/flashloan.rs), run by a host that    *)
(* executes the messages a handler returns in order, depth first, and      *)
(* rolls the whole transaction back when one of them fails.                *)
(***************************************************************************)
EXTENDS Integers, Sequences, FiniteSets, TLC

VARIABLES
    store,    \* the vault's persisted records (STATE, CURRENT_BATCH, PROFIT, ...)
    bank,     \* the chain outside the vault: coin and receipt-token balances
    now,      \* env.block.time, in seconds
    queue,    \* messages of the running transaction still to be executed
    saved,    \* store and bank as they were when the running transaction began
    last,     \* the outcome of the last handler call
    ncalls    \* the number of calls that succeeded so far

vars == <<store, bank, now, queue, saved, last, ncalls>>

(***************************************************************************)
(* Bounds of the model.                                                    *)
(***************************************************************************)
MaxTime == 3
InitialCoins == 12
MaxBatchId == 2
MaxCalls == 4

StartTime == 1

(***************************************************************************)
(* Addresses and denominations.                                            *)
(***************************************************************************)
VaultAddr == "vault"
TreasuryAddr == "treasury"
AdminAddr == "admin"
LiquidityToken == "vluna"
LUNA_DENOM == "uluna"
UST_DENOM == "uusd"
Addrs == {"alice", "arb"}
Denoms == {LUNA_DENOM, UST_DENOM}

DepositAmounts == {10}
UnbondAmounts == {10}
LoanAmounts == {0, 10}
RepayAmounts == {10, 11, 12}
Callbacks == {"cb1", "cb2"}
LoanFees == {0, 1}

(***************************************************************************)
(* cosmwasm_std::Decimal: a fixed-point number held as an integer count of *)
(* 1/DECIMAL_FRACTIONAL, and the Uint128 operations the handlers use.      *)
(* The precision is 10^18 in cosmwasm_std and scaled down here so that     *)
(* every product fits the model checker's integers.                        *)
(***************************************************************************)
DECIMAL_FRACTIONAL == 1000

Decimal_one == DECIMAL_FRACTIONAL

\* Decimal::from_ratio(n, d): floor(n * 10^k / d); d = 0 panics.
Decimal_from_ratio(n, d) == (n * DECIMAL_FRACTIONAL) \div d

\* Uint128 * Decimal: floor(u * atomics / 10^k).
MulDec(u, dec) == (u * dec) \div DECIMAL_FRACTIONAL

\* math::decimal_division(a, b): the Uint128 a divided by the Decimal b,
\* rounded down; b = 0 panics.
decimal_division(a, b) == (a * DECIMAL_FRACTIONAL) \div b

Min(a, b) == IF a < b THEN a ELSE b

\* Fee::compute(value) = value * share.
Fee_compute(share, value) == MulDec(value, share)

\* SignedInt::from_subtraction(a, b) = (|a - b|, a < b).
SignedInt_from_subtraction(a, b) ==
    IF a < b THEN <<b - a, TRUE>> ELSE <<a - b, FALSE>>

Contains(seq, x) == \E i \in 1..Len(seq) : seq[i] = x

(***************************************************************************)
(* Messages a handler schedules, and the outcome of a handler call.        *)
(***************************************************************************)
Msg(type, to, amount, data) ==
    [type |-> type, to |-> to, amount |-> amount, data |-> data]

Ok(s, msgs) == [err |-> "", store |-> s, msgs |-> msgs]
Err(s, e) == [err |-> e, store |-> s, msgs |-> <<>>]

\* The record of a handler call: the operation, its sender and arguments,
\* and the error or the messages it returned.
Call(op, sender, amount, denom, data, out) ==
    [op |-> op, sender |-> sender, amount |-> amount, denom |-> denom,
     data |-> data, err |-> out.err, msgs |-> out.msgs]

NoCall == Call("", "", 0, "", "", [err |-> "", msgs |-> <<>>])


(***************************************************************************)
(* Configuration given at instantiation.  Shares and rates are Decimals.   *)
(***************************************************************************)
FlashLoanFeeShare == 150
TreasuryFeeShare == 100
CommissionFeeShare == 500
ErThreshold == 1000
PegRecoveryFee == 500
EpochPeriod == 0
UnbondingPeriod == 1
InitialBatchId == 1

\* The value of the assets the vault holds outside its own coin balance.
DeployedValues == {0}

InitStore(allow) ==
    [state |-> [total_bond_amount |-> 0,
                exchange_rate |-> Decimal_one,
                last_unbonded_time |-> StartTime,
                prev_vault_balance |-> 0,
                actual_unbonded_amount |-> 0,
                last_processed_batch |-> InitialBatchId - 1,
                whitelisted_contracts |-> <<"arb">>,
                allow_non_whitelisted |-> allow,
                bluna_address |-> "bluna",
                memory_address |-> "memory"],
     current_batch |-> [id |-> InitialBatchId, requested_with_fee |-> 0],
     history |-> <<>>,
     wait |-> <<>>,
     profit |-> [last_balance |-> 0, last_profit |-> 0],
     fee |-> [flash_loan_fee |-> FlashLoanFeeShare,
              treasury_fee |-> TreasuryFeeShare,
              commission_fee |-> CommissionFeeShare,
              treasury_addr |-> TreasuryAddr],
     params |-> [epoch_period |-> EpochPeriod,
                 unbonding_period |-> UnbondingPeriod,
                 er_threshold |-> ErThreshold,
                 peg_recovery_fee |-> PegRecoveryFee,
                 underlying_coin_denom |-> LUNA_DENOM],
     deposit_info |-> LUNA_DENOM,
     pool_info |-> [liquidity_token |-> LiquidityToken, luna_cap |-> 0],
     admin |-> AdminAddr,
     dapp |-> [admin |-> AdminAddr,
               state |-> [treasury_address |-> TreasuryAddr,
                          trader |-> "trader"],
               address_book |-> <<>>]]

InitBank(deployed) ==
    [vault |-> 0,
     coins |-> [a \in Addrs |-> InitialCoins],
     deployed |-> deployed,
     supply |-> 0,
     lp |-> [a \in Addrs |-> 0]]

(***************************************************************************)
(* Queries.                                                                *)
(***************************************************************************)
\* helpers::compute_total_value: <<total value, luna held by the vault>>.
compute_total_value(b) == <<b.vault + b.deployed, b.vault>>

\* terraswap Asset::compute_tax: the transfer tax on an asset; the chain
\* levies none on LUNA.
TaxRate == 100
TaxCap == 2

compute_tax(asset) ==
    IF asset.denom = LUNA_DENOM THEN 0
    ELSE Min(MulDec(asset.amount, TaxRate), TaxCap)

\* terraswap query_supply of the receipt token.
query_supply(b) == b.supply

(***************************************************************************)
(* contracts/luna-vault/src/flashloan.rs                                   *)
(***************************************************************************)
ROUNDING_ERR_COMPENSATION == 10

before_trade_no_guard(s, b) ==
    Ok([s EXCEPT !.profit = [last_profit |-> 0,
                             last_balance |-> compute_total_value(b)[1]]],
       <<>>)

\* before_trade: the re-entrancy guard and the pre-loan snapshot.
before_trade(s, b) ==
    IF s.profit.last_balance # 0
    THEN Err(s, "Nonzero")
    ELSE Ok([s EXCEPT !.profit = [last_profit |-> 0,
                                  last_balance |-> compute_total_value(b)[1]]],
            <<>>)

encapsulate_payload_callback_first(messages, loan_fee) ==
    <<Msg("AfterTrade", VaultAddr, loan_fee, "")>> \o messages

\* encapsulate_payload: the response's messages, then the self-callback.
encapsulate_payload(messages, loan_fee) ==
    Append(messages, Msg("AfterTrade", VaultAddr, loan_fee, ""))

Broke_no_buffer(total_value, requested_asset) ==
    total_value < requested_asset.amount

\* handle_flashloan's funds check: the buffer of two transfer taxes and the
\* rounding compensation on top of the requested amount.
Broke(total_value, requested_asset) ==
    LET tax_buffer == 2 * compute_tax(requested_asset) + ROUNDING_ERR_COMPENSATION
    IN  total_value < requested_asset.amount + tax_buffer

LoanFee_for_everyone(s, whitelisted, requested_asset) ==
    Fee_compute(s.fee.flash_loan_fee, requested_asset.amount)

\* handle_flashloan's fee: none for a whitelisted caller.
LoanFee(s, whitelisted, requested_asset) ==
    IF whitelisted THEN 0
    ELSE Fee_compute(s.fee.flash_loan_fee, requested_asset.amount)

handle_flashloan(s, b, sender, payload) ==
    LET requested_asset == payload.requested_asset
        whitelisted == Contains(s.state.whitelisted_contracts, sender)
        total_value == compute_total_value(b)[1]
        loan_fee == LoanFee(s, whitelisted, requested_asset)
        loan_msg == Msg("BankSend", sender, requested_asset.amount, "")
        return_call == Msg("Execute", sender, 0, payload.callback)
        bt == before_trade(s, b)
    IN  IF requested_asset.denom # s.deposit_info
        THEN Err(s, "WrongAsset")
        ELSE IF ~whitelisted /\ ~s.state.allow_non_whitelisted
        THEN Err(s, "NotWhitelisted")
        ELSE IF Broke(total_value, requested_asset)
        THEN Err(s, "Broke")
        ELSE IF bt.err # ""
        THEN Err(s, bt.err)
        ELSE Ok(bt.store, encapsulate_payload(<<loan_msg, return_call>>, loan_fee))

\* send_commissions: the commission on the profit, sent to the treasury.
send_commissions(s, profit) ==
    LET commission_amount == Fee_compute(s.fee.commission_fee, profit)
    IN  <<Msg("BankSend", s.fee.treasury_addr, commission_amount, "")>>

after_trade_no_fee(s, b, loan_fee) ==
    LET conf == s.profit
        balance == compute_total_value(b)[1]
        profit == balance - conf.last_balance
    IN  IF balance < conf.last_balance
        THEN Err(s, "CancelLosingTrade")
        ELSE Ok([s EXCEPT !.profit = [last_profit |-> profit, last_balance |-> 0]],
                send_commissions(s, profit))

after_trade_commission_on_balance(s, b, loan_fee) ==
    LET conf == s.profit
        balance == compute_total_value(b)[1]
        profit == balance - conf.last_balance
    IN  IF balance < conf.last_balance + loan_fee
        THEN Err(s, "CancelLosingTrade")
        ELSE Ok([s EXCEPT !.profit = [last_profit |-> profit, last_balance |-> 0]],
                send_commissions(s, balance))

after_trade_profit_is_balance(s, b, loan_fee) ==
    LET conf == s.profit
        balance == compute_total_value(b)[1]
    IN  IF balance < conf.last_balance + loan_fee
        THEN Err(s, "CancelLosingTrade")
        ELSE Ok([s EXCEPT !.profit = [last_profit |-> balance, last_balance |-> 0]],
                send_commissions(s, balance - conf.last_balance))

after_trade_flag_stays(s, b, loan_fee) ==
    LET conf == s.profit
        balance == compute_total_value(b)[1]
        profit == balance - conf.last_balance
    IN  IF balance < conf.last_balance + loan_fee
        THEN Err(s, "CancelLosingTrade")
        ELSE Ok([s EXCEPT !.profit.last_profit = profit],
                send_commissions(s, profit))

after_trade(s, b, loan_fee) ==
    LET conf == s.profit
        balance == compute_total_value(b)[1]
        profit == balance - conf.last_balance
    IN  IF balance < conf.last_balance + loan_fee
        THEN Err(s, "CancelLosingTrade")
        ELSE IF profit < 0
        THEN Err(s, "Panic")
        ELSE Ok([s EXCEPT !.profit = [last_profit |-> profit, last_balance |-> 0]],
                send_commissions(s, profit))

_handle_callback_from_anyone(s, b, sender, loan_fee) ==
    after_trade(s, b, loan_fee)

_handle_callback(s, b, sender, loan_fee) ==
    IF sender # VaultAddr
    THEN Err(s, "NotCallback")
    ELSE after_trade(s, b, loan_fee)

(***************************************************************************)
(* contracts/luna-vault/src/state.rs and helpers.rs: the records' helpers. *)
(***************************************************************************)
\* State::update_exchange_rate: total_bond_amount over the receipt supply
\* plus the pending requests; the previous rate when that sum is zero.
update_exchange_rate(st, total_supply, requested_with_fee) ==
    IF total_supply + requested_with_fee = 0
    THEN st
    ELSE [st EXCEPT !.exchange_rate =
              Decimal_from_ratio(st.total_bond_amount,
                                 total_supply + requested_with_fee)]

\* helpers::slashing: the passive strategy is a stub, nothing is delegated.
slashing(st) == st

\* helpers::get_treasury_fee: the treasury share of the unbonded amount.
get_treasury_fee(s, amount) == Fee_compute(s.fee.treasury_fee, amount)

HasHistory(s, i) == i \in DOMAIN s.history

store_unbond_history(history, id, h) ==
    [i \in (DOMAIN history) \cup {id} |-> IF i = id THEN h ELSE history[i]]

store_unbond_wait_list(wait, id, sender, amount) ==
    [k \in (DOMAIN wait) \cup {<<id, sender>>} |->
        IF k = <<id, sender>>
        THEN (IF k \in DOMAIN wait THEN wait[k] ELSE 0) + amount
        ELSE wait[k]]

\* get_unbond_batches: the sender's wait entries whose batch is released.
get_unbond_batches(s, sender) ==
    {k \in DOMAIN s.wait :
        k[2] = sender /\ HasHistory(s, k[1]) /\ s.history[k[1]].released}

RECURSIVE SumFinished(_, _)
SumFinished(s, keys) ==
    IF keys = {} THEN 0
    ELSE LET k == CHOOSE x \in keys : TRUE
         IN  MulDec(s.wait[k], s.history[k[1]].withdraw_rate)
             + SumFinished(s, keys \ {k})

\* get_finished_amount: what those entries are worth at their batches'
\* withdraw rates.
get_finished_amount(s, sender) == SumFinished(s, get_unbond_batches(s, sender))

remove_unbond_wait_list(wait, keys) ==
    [k \in (DOMAIN wait) \ keys |-> wait[k]]

(***************************************************************************)
(* contracts/luna-vault/src/commands.rs                                    *)
(***************************************************************************)
PegFee_uncapped(max_peg_fee, required_peg_fee) == required_peg_fee

\* The peg recovery fee: the required fee, capped by the recovery fee share.
PegFee(max_peg_fee, required_peg_fee) == Min(max_peg_fee, required_peg_fee)

\* provide_liquidity past its loan-in-flight guard.
provide_liquidity_body(s, b, sender, asset, funds) ==
    LET requested_with_fee == s.current_batch.requested_with_fee
        deposit == asset.amount
        state == slashing(s.state)
        total_supply == query_supply(b)
        below == state.exchange_rate < s.params.er_threshold
        mint_amount == decimal_division(deposit, state.exchange_rate)
        max_peg_fee == MulDec(mint_amount, s.params.peg_recovery_fee)
        required_peg_fee == (total_supply + mint_amount + requested_with_fee)
                            - (state.total_bond_amount + deposit)
        peg_fee == PegFee(max_peg_fee, required_peg_fee)
        mint_amount_with_fee == IF below THEN mint_amount - peg_fee
                                ELSE mint_amount
        state2 == update_exchange_rate(
                      [state EXCEPT !.total_bond_amount = @ + deposit],
                      total_supply + mint_amount_with_fee, requested_with_fee)
    IN  IF asset.denom # s.deposit_info
        THEN Err(s, "WrongAsset")
        ELSE IF funds # asset.amount
        THEN Err(s, "FundsMismatch")
        ELSE IF state.exchange_rate = 0
        THEN Err(s, "Panic")
        ELSE IF below /\ required_peg_fee < 0
        THEN Err(s, "Overflow")
        ELSE IF below /\ mint_amount < peg_fee
        THEN Err(s, "Overflow")
        ELSE Ok([s EXCEPT !.state = state2],
                <<Msg("Mint", sender, mint_amount_with_fee, "")>>)

provide_liquidity_no_guard(s, b, sender, asset, funds) ==
    provide_liquidity_body(s, b, sender, asset, funds)

provide_liquidity(s, b, sender, asset, funds) ==
    IF s.profit.last_balance # 0
    THEN Err(s, "DepositDuringLoan")
    ELSE provide_liquidity_body(s, b, sender, asset, funds)

AmountWithFee_fee_after_peg(s, amount, peg_fee) ==
    (amount - peg_fee) - get_treasury_fee(s, amount - peg_fee)

\* What an unbond request leaves to its sender: the amount less the peg fee
\* and less the treasury fee, which is taken on the whole amount.
AmountWithFee(s, amount, peg_fee) ==
    (amount - peg_fee) - get_treasury_fee(s, amount)

BurnAmount_whole(amount, treasury_fee) == amount

\* The receipt tokens burnt: the treasury's share is transferred instead.
BurnAmount(amount, treasury_fee) == amount - treasury_fee

EpochPassed_inclusive(passed_time_seconds, epoch_period) ==
    passed_time_seconds >= epoch_period

\* The epoch period has passed since the last batch was closed.
EpochPassed(passed_time_seconds, epoch_period) ==
    passed_time_seconds > epoch_period

UndelegationAmount_rounded_up(requested_with_fee, exchange_rate) ==
    MulDec(requested_with_fee, exchange_rate) + 1

\* The base asset released for a closing batch.
UndelegationAmount(requested_with_fee, exchange_rate) ==
    MulDec(requested_with_fee, exchange_rate)

TooSmall_at_most_one(undelegation_amount) == undelegation_amount <= 1

\* The release the contract refuses.
TooSmall(undelegation_amount) == undelegation_amount = 1

UnbondHistory_at_rate_one(batch_id, time, amount, exchange_rate) ==
    [batch_id |-> batch_id,
     time |-> time,
     amount |-> amount,
     applied_exchange_rate |-> exchange_rate,
     withdraw_rate |-> Decimal_one,
     released |-> FALSE]

\* The record a closing batch is frozen into.
UnbondHistory(batch_id, time, amount, exchange_rate) ==
    [batch_id |-> batch_id,
     time |-> time,
     amount |-> amount,
     applied_exchange_rate |-> exchange_rate,
     withdraw_rate |-> exchange_rate,
     released |-> FALSE]

NewBatch_same_id(current_batch) ==
    [id |-> current_batch.id, requested_with_fee |-> 0]

\* The batch opened by a rollover: the next id, nothing requested yet.
NewBatch(current_batch) ==
    [id |-> current_batch.id + 1, requested_with_fee |-> 0]

\* unbond past its loan-in-flight guard.
unbond_body(s, b, time, amount, sender) ==
    LET current_batch == s.current_batch
        params == s.params
        state == slashing(s.state)
        total_supply == query_supply(b)
        treasury_fee == get_treasury_fee(s, amount)
        below == state.exchange_rate < params.er_threshold
        max_peg_fee == MulDec(amount, params.peg_recovery_fee)
        required_peg_fee == (total_supply + current_batch.requested_with_fee)
                            - state.total_bond_amount
        peg_fee == IF below THEN PegFee(max_peg_fee, required_peg_fee) ELSE 0
        after_peg == amount - peg_fee
        amount_with_fee == AmountWithFee(s, amount, peg_fee)
        requested == current_batch.requested_with_fee + amount_with_fee
        wait2 == store_unbond_wait_list(s.wait, current_batch.id, sender,
                                        amount_with_fee)
        state2 == update_exchange_rate(state, total_supply - amount, requested)
        passed_time_seconds == time - state.last_unbonded_time
        rollover == EpochPassed(passed_time_seconds, params.epoch_period)
        undelegation_amount == UndelegationAmount(requested, state2.exchange_rate)
        history == UnbondHistory(current_batch.id, time, requested,
                                 state2.exchange_rate)
        state3 == IF rollover
                  THEN [state2 EXCEPT
                           !.total_bond_amount = @ - undelegation_amount,
                           !.last_unbonded_time = time]
                  ELSE state2
        batch3 == IF rollover
                  THEN NewBatch(current_batch)
                  ELSE [current_batch EXCEPT !.requested_with_fee = requested]
        history3 == IF rollover
                    THEN store_unbond_history(s.history, current_batch.id, history)
                    ELSE s.history
    IN  IF below /\ required_peg_fee < 0
        THEN Err(s, "Overflow")
        ELSE IF below /\ amount < peg_fee
        THEN Err(s, "Overflow")
        ELSE IF after_peg < treasury_fee
        THEN Err(s, "Overflow")
        ELSE IF total_supply < amount
        THEN Err(s, "Panic")
        ELSE IF rollover /\ TooSmall(undelegation_amount)
        THEN Err(s, "TooSmallBurn")
        ELSE IF rollover /\ state2.total_bond_amount < undelegation_amount
        THEN Err(s, "PanicUndelegation")
        ELSE Ok([s EXCEPT !.state = state3,
                          !.current_batch = batch3,
                          !.history = history3,
                          !.wait = wait2],
                <<Msg("Burn", LiquidityToken, BurnAmount(amount, treasury_fee), ""),
                  Msg("Cw20Transfer", s.fee.treasury_addr, treasury_fee, "")>>)

unbond(s, b, time, amount, sender) ==
    IF s.profit.last_balance # 0
    THEN Err(s, "DepositDuringLoan")
    ELSE unbond_body(s, b, time, amount, sender)

receive_cw20_any_token(s, b, time, token, amount, sender) ==
    unbond(s, b, time, amount, sender)

\* receive_cw20: only the receipt token contract may start an unbond.
receive_cw20(s, b, time, token, amount, sender) ==
    IF token # s.pool_info.liquidity_token
    THEN Err(s, "Unauthorized")
    ELSE unbond(s, b, time, amount, sender)

Qualifies_any_time(s, i, historical_time) ==
    HasHistory(s, i) /\ ~s.history[i].released

\* The loops' test in _process_withdraw_rate: batch i exists, closed at or
\* before historical_time and is not released.
Qualifies(s, i, historical_time) ==
    /\ HasHistory(s, i)
    /\ s.history[i].time <= historical_time
    /\ ~s.history[i].released

\* The first batch id at or after i at which the loops break.
RECURSIVE ScanEnd(_, _, _)
ScanEnd(s, i, historical_time) ==
    IF Qualifies(s, i, historical_time)
    THEN ScanEnd(s, i + 1, historical_time)
    ELSE i

UnbondedAmountOf(h) == MulDec(h.amount, h.withdraw_rate)

\* The first loop: the provisional unbonded amount of batches from .. to - 1.
RECURSIVE TotalUnbonded(_, _, _)
TotalUnbonded(s, from, to) ==
    IF from >= to THEN 0
    ELSE UnbondedAmountOf(s.history[from]) + TotalUnbonded(s, from + 1, to)

\* One pass of the second loop's body: <<error, finalized unbonded amount>>.
ActualUnbondedOfBatch(h, total_unbonded_amount, slashed_amount) ==
    LET unbonded_amount_of_batch == UnbondedAmountOf(h)
        batch_slashing_weight ==
            Decimal_from_ratio(unbonded_amount_of_batch, total_unbonded_amount)
        slashed_amount_of_batch == MulDec(slashed_amount[1], batch_slashing_weight)
    IN  IF total_unbonded_amount = 0
        THEN <<"Panic", 0>>
        ELSE IF slashed_amount[2]
        THEN IF slashed_amount_of_batch < 1
             THEN <<"Overflow", 0>>
             ELSE <<"", unbonded_amount_of_batch + (slashed_amount_of_batch - 1)>>
        ELSE LET charged == IF slashed_amount[1] # 0
                            THEN slashed_amount_of_batch + 1
                            ELSE slashed_amount_of_batch
             IN  <<"", SignedInt_from_subtraction(unbonded_amount_of_batch,
                                                   charged)[1]>>

ReleaseBatch_over_provisional(h, total_unbonded_amount, slashed_amount) ==
    LET r == ActualUnbondedOfBatch(h, total_unbonded_amount, slashed_amount)
    IN  [h EXCEPT !.withdraw_rate = Decimal_from_ratio(r[2], UnbondedAmountOf(h)),
                  !.released = TRUE]

\* The end of the second loop's body: the batch gets its new withdraw rate
\* and is marked released.
ReleaseBatch(h, total_unbonded_amount, slashed_amount) ==
    LET r == ActualUnbondedOfBatch(h, total_unbonded_amount, slashed_amount)
    IN  [h EXCEPT !.withdraw_rate = Decimal_from_ratio(r[2], h.amount),
                  !.released = TRUE]

\* The accumulator after the balance change since the last withdrawal is
\* added to it: `state.actual_unbonded_amount += balance_change.0`.
AccumulatedUnbonded(actual_unbonded_amount, vault_balance, prev_vault_balance) ==
    LET balance_change ==
            SignedInt_from_subtraction(vault_balance, prev_vault_balance)
    IN  actual_unbonded_amount + balance_change[1]

ProcessedUpTo_stays(last_processed_batch, first, end) == last_processed_batch

\* The pointer after the second loop: the last batch it released, if any.
ProcessedUpTo(last_processed_batch, first, end) ==
    IF end - first >= 1 THEN end - 1 ELSE last_processed_batch

_process_withdraw_rate(s, historical_time, vault_balance) ==
    LET actual_unbonded_amount ==
            AccumulatedUnbonded(s.state.actual_unbonded_amount, vault_balance,
                                s.state.prev_vault_balance)
        first == s.state.last_processed_batch + 1
        end == ScanEnd(s, first, historical_time)
        batch_count == end - first
        total_unbonded_amount == TotalUnbonded(s, first, end)
        slashed_amount ==
            SignedInt_from_subtraction(total_unbonded_amount, actual_unbonded_amount)
        failing == {i \in first..(end - 1) :
                       \/ ActualUnbondedOfBatch(s.history[i], total_unbonded_amount,
                                                slashed_amount)[1] # ""
                       \/ s.history[i].amount = 0}
        first_failing == CHOOSE i \in failing : \A j \in failing : i <= j
        history2 == [i \in DOMAIN s.history |->
                        IF i >= first /\ i < end
                        THEN ReleaseBatch(s.history[i], total_unbonded_amount,
                                          slashed_amount)
                        ELSE s.history[i]]
    IN  IF batch_count >= 1 /\ failing # {}
        THEN Err(s, IF s.history[first_failing].amount = 0
                       /\ ActualUnbondedOfBatch(s.history[first_failing],
                              total_unbonded_amount, slashed_amount)[1] = ""
                    THEN "Panic"
                    ELSE ActualUnbondedOfBatch(s.history[first_failing],
                             total_unbonded_amount, slashed_amount)[1])
        ELSE Ok([s EXCEPT
                    !.history = IF batch_count >= 1 THEN history2 ELSE @,
                    !.state = [@ EXCEPT
                        !.actual_unbonded_amount = 0,
                        !.last_processed_batch = ProcessedUpTo(@, first, end)]],
                <<>>)

PrevBalance_before_payout(vault_balance, withdraw_amount) == vault_balance

\* The balance the vault is left with once the payout is sent; an error when
\* the payout exceeds the balance read.
PrevBalance(vault_balance, withdraw_amount) == vault_balance - withdraw_amount

RemoveWithdrawn_nothing(s, sender) == s.wait

\* The wait list once the sender's entries in released batches are removed.
RemoveWithdrawn(s, sender) ==
    remove_unbond_wait_list(s.wait, get_unbond_batches(s, sender))

execute_withdraw_unbonded_keeps_reconciliation(s, b, time, sender) ==
    LET historical_time == time - s.params.unbonding_period
        vault_balance == b.vault
        pr == _process_withdraw_rate(s, historical_time, vault_balance)
        s1 == pr.store
        withdraw_amount == get_finished_amount(s1, sender)
        prev_balance == PrevBalance(vault_balance, withdraw_amount)
    IN  IF historical_time < 0
        THEN Err(s, "Panic")
        ELSE IF pr.err # ""
        THEN Err(s, pr.err)
        ELSE IF withdraw_amount = 0
        THEN Ok(s1, <<>>)
        ELSE IF prev_balance < 0
        THEN Err(s, "Overflow")
        ELSE Ok([s1 EXCEPT
                    !.wait = RemoveWithdrawn(s1, sender),
                    !.state = [@ EXCEPT !.prev_vault_balance = prev_balance]],
                <<Msg("BankSend", sender, withdraw_amount, "")>>)

execute_withdraw_unbonded(s, b, time, sender) ==
    LET historical_time == time - s.params.unbonding_period
        vault_balance == b.vault
        pr == _process_withdraw_rate(s, historical_time, vault_balance)
        s1 == pr.store
        withdraw_amount == get_finished_amount(s1, sender)
        prev_balance == PrevBalance(vault_balance, withdraw_amount)
    IN  IF historical_time < 0
        THEN Err(s, "Panic")
        ELSE IF pr.err # ""
        THEN Err(s, pr.err)
        ELSE IF withdraw_amount = 0
        THEN Err(s, "NoWithdrawableAssetsAvailable")
        ELSE IF prev_balance < 0
        THEN Err(s, "Overflow")
        ELSE Ok([s1 EXCEPT
                    !.wait = RemoveWithdrawn(s1, sender),
                    !.state = [@ EXCEPT !.prev_vault_balance = prev_balance]],
                <<Msg("BankSend", sender, withdraw_amount, "")>>)

(***************************************************************************)
(* The host.  A call's messages run before the rest of the transaction     *)
(* (depth first); a failing message rolls the whole transaction back to    *)
(* the state it began in.                                                  *)
(***************************************************************************)
NoSave == [active |-> FALSE, store |-> <<>>, bank |-> <<>>]

Idle == queue = <<>>

\* The borrower's callback is running.
InBorrower == queue # <<>> /\ Head(queue).type = "Execute"

\* Who can call the vault now: anyone between transactions, the borrower
\* alone while its callback runs.
CanCall(sender) ==
    \/ Idle
    \/ InBorrower /\ sender = Head(queue).to

\* A handler call with outcome out, made with the chain in state bank1 (the
\* funds attached to the call moved).  A failed call changes nothing.
Invoke(call, out, bank1) ==
    /\ last' = call
    /\ now' = now
    /\ IF out.err = ""
       THEN /\ ncalls < MaxCalls
            /\ ncalls' = ncalls + 1
            /\ store' = out.store
            /\ bank' = bank1
            /\ queue' = out.msgs \o queue
            /\ saved' = IF out.msgs \o queue = <<>> THEN NoSave
                        ELSE IF Idle
                        THEN [active |-> TRUE, store |-> store, bank |-> bank]
                        ELSE saved
       ELSE UNCHANGED <<store, bank, queue, saved, ncalls>>

\* The head message has executed, leaving store s and chain b.
Executed(s, b, more) ==
    /\ store' = s
    /\ bank' = b
    /\ queue' = more \o Tail(queue)
    /\ saved' = IF more \o Tail(queue) = <<>> THEN NoSave ELSE saved
    /\ UNCHANGED <<now, ncalls>>

Rollback ==
    /\ store' = saved.store
    /\ bank' = saved.bank
    /\ queue' = <<>>
    /\ saved' = NoSave
    /\ UNCHANGED <<now, ncalls>>

(***************************************************************************)
(* Calls into the vault, by a user or by a borrower inside its callback.   *)
(***************************************************************************)
Deposit(sender, amount, denom) ==
    /\ CanCall(sender)
    /\ bank.coins[sender] >= amount
    /\ LET bank1 == [bank EXCEPT !.vault = @ + amount,
                                 !.coins[sender] = @ - amount]
           asset == [denom |-> denom, amount |-> amount]
           out == provide_liquidity(store, bank1, sender, asset, amount)
       IN  Invoke(Call("provide_liquidity", sender, amount, denom, "", out),
                  out, bank1)

Unbond(sender, amount, token) ==
    /\ CanCall(sender)
    /\ store.current_batch.id <= MaxBatchId
    /\ token = LiquidityToken => bank.lp[sender] >= amount
    /\ LET bank1 == IF token = LiquidityToken
                    THEN [bank EXCEPT !.lp[sender] = @ - amount]
                    ELSE bank
           out == receive_cw20(store, bank, now, token, amount, sender)
       IN  Invoke(Call("receive_cw20", sender, amount, "", token, out),
                  out, bank1)

WithdrawUnbonded(sender) ==
    /\ CanCall(sender)
    /\ LET out == execute_withdraw_unbonded(store, bank, now, sender)
       IN  Invoke(Call("withdraw_unbonded", sender, 0, "", "", out), out, bank)

FlashLoan(sender, amount, denom, cb) ==
    /\ CanCall(sender)
    /\ LET payload == [requested_asset |-> [denom |-> denom, amount |-> amount],
                       callback |-> cb]
           out == handle_flashloan(store, bank, sender, payload)
       IN  Invoke(Call("flash_loan", sender, amount, denom, cb, out), out, bank)

\* An AfterTrade callback message sent to the vault by someone else.
Callback(sender, loan_fee) ==
    /\ CanCall(sender)
    /\ LET out == _handle_callback(store, bank, sender, loan_fee)
       IN  Invoke(Call("callback", sender, loan_fee, "", "", out), out, bank)

\* Coins the borrower sends to the vault during its callback.
SendToVault(amount) ==
    /\ InBorrower
    /\ bank.coins[Head(queue).to] >= amount
    /\ bank' = [bank EXCEPT !.vault = @ + amount,
                            !.coins[Head(queue).to] = @ - amount]
    /\ UNCHANGED <<store, now, queue, saved, last, ncalls>>

Tick ==
    /\ Idle
    /\ now < MaxTime
    /\ now' = now + 1
    /\ UNCHANGED <<store, bank, queue, saved, last, ncalls>>

(***************************************************************************)
(* The host executing the head of the queue.                               *)
(***************************************************************************)
\* The bank module moving coins of the vault to an address.
Transfer(b, to, amount) ==
    IF to \in Addrs
    THEN [b EXCEPT !.vault = @ - amount, !.coins[to] = @ + amount]
    ELSE [b EXCEPT !.vault = @ - amount]

ExecBankSend ==
    /\ queue # <<>>
    /\ Head(queue).type = "BankSend"
    /\ IF bank.vault < Head(queue).amount
       THEN /\ Rollback
            /\ last' = Call("bank_send", VaultAddr, Head(queue).amount, "", "",
                            [err |-> "InsufficientFunds", msgs |-> <<>>])
       ELSE /\ Executed(store, Transfer(bank, Head(queue).to, Head(queue).amount),
                        <<>>)
            /\ last' = last

ExecMint ==
    /\ queue # <<>>
    /\ Head(queue).type = "Mint"
    /\ Executed(store,
                [bank EXCEPT !.supply = @ + Head(queue).amount,
                             !.lp[Head(queue).to] = @ + Head(queue).amount],
                <<>>)
    /\ last' = last

ExecBurn ==
    /\ queue # <<>>
    /\ Head(queue).type = "Burn"
    /\ Executed(store, [bank EXCEPT !.supply = @ - Head(queue).amount], <<>>)
    /\ last' = last

ExecCw20Transfer ==
    /\ queue # <<>>
    /\ Head(queue).type = "Cw20Transfer"
    /\ Executed(store, bank, <<>>)
    /\ last' = last

\* The vault's self-addressed AfterTrade callback.
ExecAfterTrade ==
    /\ queue # <<>>
    /\ Head(queue).type = "AfterTrade"
    /\ LET out == _handle_callback(store, bank, VaultAddr, Head(queue).amount)
       IN  /\ last' = Call("after_trade", VaultAddr, Head(queue).amount, "", "", out)
           /\ IF out.err = ""
              THEN Executed(out.store, bank, out.msgs)
              ELSE Rollback

\* The borrower's callback returns.
BorrowerReturn ==
    /\ InBorrower
    /\ Executed(store, bank, <<>>)
    /\ last' = last

\* The borrower's callback fails.
BorrowerFail ==
    /\ InBorrower
    /\ Rollback
    /\ last' = Call("borrower", Head(queue).to, 0, "", Head(queue).data,
                    [err |-> "CallbackFailed", msgs |-> <<>>])

Init ==
    /\ \E allow \in BOOLEAN : store = InitStore(allow)
    /\ \E d \in DeployedValues : bank = InitBank(d)
    /\ now = StartTime
    /\ queue = <<>>
    /\ saved = NoSave
    /\ last = NoCall
    /\ ncalls = 0

Next ==
    \/ \E a \in Addrs, n \in DepositAmounts, d \in Denoms : Deposit(a, n, d)
    \/ \E a \in Addrs, n \in UnbondAmounts, tk \in {LiquidityToken, "other"} :
           Unbond(a, n, tk)
    \/ \E a \in Addrs : WithdrawUnbonded(a)
    \/ \E a \in Addrs, n \in LoanAmounts, cb \in Callbacks :
           FlashLoan(a, n, LUNA_DENOM, cb)
    \/ \E a \in Addrs : FlashLoan(a, 10, UST_DENOM, "cb1")
    \/ \E a \in Addrs, f \in LoanFees : Callback(a, f)
    \/ \E n \in RepayAmounts : SendToVault(n)
    \/ Tick
    \/ ExecBankSend
    \/ ExecMint
    \/ ExecBurn
    \/ ExecCw20Transfer
    \/ ExecAfterTrade
    \/ BorrowerReturn
    \/ BorrowerFail

Spec == Init /\ [][Next]_vars

(***************************************************************************)
(* The ledger on its own: a vault that has taken deposits, and may have    *)
(* been slashed since, serving deposits, unbond requests and withdrawals.  *)
(* No flash loan runs, so that the ledger's arithmetic can be given more   *)
(* amounts than under Spec.                                                *)
(***************************************************************************)
\* The receipt tokens each address holds at the start.
LedgerHolding == 10

\* The vaults the ledger starts from.  bond is total_bond_amount: the whole
\* deposit of 20, or less after a slash.  prev is prev_vault_balance: 0 before
\* the first withdrawal, the vault's balance right after one.
LedgerSnapshots ==
    {[bond |-> 20, recovery_fee |-> 500, prev |-> 0],
     [bond |-> 20, recovery_fee |-> 500, prev |-> 20],
     [bond |-> 16, recovery_fee |-> 500, prev |-> 0],
     [bond |-> 16, recovery_fee |-> 0, prev |-> 0],
     [bond |-> 6, recovery_fee |-> Decimal_one, prev |-> 0]}

LedgerDepositAmounts == {10}
LedgerUnbondAmounts == {1, 5, 10}
HolderBurnAmounts == {10}
LedgerDepositors == {"arb"}
LedgerBurners == {"alice"}

LedgerStore(snap) ==
    [InitStore(FALSE) EXCEPT
        !.state.total_bond_amount = snap.bond,
        !.state.exchange_rate = Decimal_from_ratio(snap.bond, 2 * LedgerHolding),
        !.state.last_unbonded_time = StartTime - 1,
        !.state.prev_vault_balance = snap.prev,
        !.params.peg_recovery_fee = snap.recovery_fee]

LedgerBank(snap) ==
    [vault |-> snap.bond,
     coins |-> [a \in Addrs |-> InitialCoins],
     deployed |-> 0,
     supply |-> 2 * LedgerHolding,
     lp |-> [a \in Addrs |-> LedgerHolding]]

\* A holder burns receipt tokens of its own at the token contract.
HolderBurn(sender, amount) ==
    /\ Idle
    /\ ncalls < MaxCalls
    /\ bank.lp[sender] >= amount
    /\ bank' = [bank EXCEPT !.supply = @ - amount, !.lp[sender] = @ - amount]
    /\ last' = Call("burn", sender, amount, "", LiquidityToken,
                    [err |-> "", msgs |-> <<>>])
    /\ ncalls' = ncalls + 1
    /\ UNCHANGED <<store, now, queue, saved>>

\* The calls that succeeded before the ledger's start: the deposit that
\* issued the receipt tokens.
LedgerCallsMade == 1

LedgerInit ==
    /\ \E snap \in LedgerSnapshots :
          /\ store = LedgerStore(snap)
          /\ bank = LedgerBank(snap)
    /\ now = StartTime
    /\ queue = <<>>
    /\ saved = NoSave
    /\ last = NoCall
    /\ ncalls = LedgerCallsMade

LedgerNext ==
    \/ \E a \in LedgerDepositors, n \in LedgerDepositAmounts :
           Deposit(a, n, LUNA_DENOM)
    \/ \E a \in Addrs, n \in LedgerUnbondAmounts : Unbond(a, n, LiquidityToken)
    \/ \E a \in Addrs : WithdrawUnbonded(a)
    \/ \E a \in LedgerBurners, n \in HolderBurnAmounts : HolderBurn(a, n)
    \/ Tick
    \/ ExecBankSend
    \/ ExecMint
    \/ ExecBurn
    \/ ExecCw20Transfer

LedgerSpec == LedgerInit /\ [][LedgerNext]_vars

(***************************************************************************)
(* The ledger with a loan in flight: a vault at rate 1.0 whose last        *)
(* withdrawal left it the balance it still holds, serving unbond requests, *)
(* withdrawals and flash loans to the whitelisted borrower, whose callback *)
(* may call the vault.                                                     *)
(***************************************************************************)
LoanLedgerSnapshot == [bond |-> 20, recovery_fee |-> 500, prev |-> 20]

LoanLedgerUnbondAmounts == {5}
LoanLedgerLoans == {10}
LoanLedgerRepayAmounts == {10, 11}

LoanLedgerInit ==
    /\ store = LedgerStore(LoanLedgerSnapshot)
    /\ bank = LedgerBank(LoanLedgerSnapshot)
    /\ now = StartTime
    /\ queue = <<>>
    /\ saved = NoSave
    /\ last = NoCall
    /\ ncalls = LedgerCallsMade

LoanLedgerNext ==
    \/ \E a \in Addrs, n \in LoanLedgerUnbondAmounts : Unbond(a, n, LiquidityToken)
    \/ \E a \in Addrs : WithdrawUnbonded(a)
    \/ \E n \in LoanLedgerLoans : FlashLoan("arb", n, LUNA_DENOM, "cb1")
    \/ \E n \in LoanLedgerRepayAmounts : SendToVault(n)
    \/ Tick
    \/ ExecBankSend
    \/ ExecBurn
    \/ ExecCw20Transfer
    \/ ExecAfterTrade
    \/ BorrowerReturn
    \/ BorrowerFail

LoanLedgerSpec == LoanLedgerInit /\ [][LoanLedgerNext]_vars

(***************************************************************************)
(* Governance: the admin-gated setters of the vault                        *)
(* (contracts/luna-vault/src/commands.rs) and of a dapp built on dapp-base *)
(* (packages/white_whale/src/treasury/dapp_base/commands.rs), whose        *)
(* storage is kept in the field dapp of the store.                         *)
(***************************************************************************)
\* Option<T>: None, or Some(v) holding v.
None == <<>>

Some(v) == <<v>>

\* Api::addr_validate: the empty string is no address.
addr_validate(a) == a # ""

\* Admin::assert_admin, Admin::execute_update_admin: the sender is the admin.
is_admin(admin, sender) == sender = admin

\* memory::LIST_SIZE_LIMIT, scaled down so that the whitelist fills.
LIST_SIZE_LIMIT == 2

\* helpers::check_fee: a fee's share is below 100%.
check_fee(fee) == fee < Decimal_one

set_luna_cap(s, sender, luna_cap) ==
    IF ~is_admin(s.admin, sender)
    THEN Err(s, "NotAdmin")
    ELSE Ok([s EXCEPT !.pool_info.luna_cap = luna_cap], <<>>)

\* The vault's set_admin: the address is validated first, the sender is
\* checked by execute_update_admin.
set_admin(s, sender, admin) ==
    IF ~addr_validate(admin)
    THEN Err(s, "InvalidAddress")
    ELSE IF ~is_admin(s.admin, sender)
    THEN Err(s, "NotAdmin")
    ELSE Ok([s EXCEPT !.admin = admin], <<>>)

set_fee(s, sender, flash_loan_fee, treasury_fee, commission_fee) ==
    LET given == {f \in {flash_loan_fee, treasury_fee, commission_fee} : f # None}
    IN  IF ~is_admin(s.admin, sender)
        THEN Err(s, "NotAdmin")
        ELSE IF \E f \in given : ~check_fee(f[1])
        THEN Err(s, "InvalidFee")
        ELSE Ok([s EXCEPT
                    !.fee.flash_loan_fee =
                        IF flash_loan_fee # None THEN flash_loan_fee[1] ELSE @,
                    !.fee.treasury_fee =
                        IF treasury_fee # None THEN treasury_fee[1] ELSE @,
                    !.fee.commission_fee =
                        IF commission_fee # None THEN commission_fee[1] ELSE @],
                <<>>)

add_to_whitelist_again(s, sender, contract_addr) ==
    IF ~is_admin(s.admin, sender)
    THEN Err(s, "NotAdmin")
    ELSE IF ~addr_validate(contract_addr)
    THEN Err(s, "InvalidAddress")
    ELSE IF Len(s.state.whitelisted_contracts) >= LIST_SIZE_LIMIT
    THEN Err(s, "WhitelistLimitReached")
    ELSE Ok([s EXCEPT !.state.whitelisted_contracts = Append(@, contract_addr)],
            <<>>)

add_to_whitelist(s, sender, contract_addr) ==
    IF ~is_admin(s.admin, sender)
    THEN Err(s, "NotAdmin")
    ELSE IF ~addr_validate(contract_addr)
    THEN Err(s, "InvalidAddress")
    ELSE IF Contains(s.state.whitelisted_contracts, contract_addr)
    THEN Err(s, "AlreadyWhitelisted")
    ELSE IF Len(s.state.whitelisted_contracts) >= LIST_SIZE_LIMIT
    THEN Err(s, "WhitelistLimitReached")
    ELSE Ok([s EXCEPT !.state.whitelisted_contracts = Append(@, contract_addr)],
            <<>>)

remove_from_whitelist(s, sender, contract_addr) ==
    IF ~is_admin(s.admin, sender)
    THEN Err(s, "NotAdmin")
    ELSE IF ~addr_validate(contract_addr)
    THEN Err(s, "InvalidAddress")
    ELSE IF ~Contains(s.state.whitelisted_contracts, contract_addr)
    THEN Err(s, "NotWhitelisted")
    ELSE Ok([s EXCEPT !.state.whitelisted_contracts =
                          SelectSeq(@, LAMBDA addr : addr # contract_addr)],
            <<>>)

update_state(s, sender, bluna_address, memory_address, allow_non_whitelisted) ==
    IF ~is_admin(s.admin, sender)
    THEN Err(s, "NotAdmin")
    ELSE IF bluna_address # None /\ ~addr_validate(bluna_address[1])
    THEN Err(s, "InvalidAddress")
    ELSE IF memory_address # None /\ ~addr_validate(memory_address[1])
    THEN Err(s, "InvalidAddress")
    ELSE Ok([s EXCEPT
                !.state.bluna_address =
                    IF bluna_address # None THEN bluna_address[1] ELSE @,
                !.state.memory_address =
                    IF memory_address # None THEN memory_address[1] ELSE @,
                !.state.allow_non_whitelisted =
                    IF allow_non_whitelisted # None
                    THEN allow_non_whitelisted[1] ELSE @],
            <<>>)

\* dapp-base: the address book after the pairs of to_add, in order.
RECURSIVE AddAll(_, _)
AddAll(book, to_add) ==
    IF to_add = <<>> THEN book
    ELSE LET name == Head(to_add)[1]
             new_address == Head(to_add)[2]
         IN  AddAll([n \in (DOMAIN book) \cup {name} |->
                        IF n = name THEN new_address ELSE book[n]],
                    Tail(to_add))

\* dapp-base: the address book without the names of to_remove.
RemoveAll(book, to_remove) ==
    [n \in (DOMAIN book) \ {to_remove[i] : i \in 1..Len(to_remove)} |-> book[n]]

update_address_book_remove_first(s, sender, to_add, to_remove) ==
    IF ~is_admin(s.dapp.admin, sender)
    THEN Err(s, "NotAdmin")
    ELSE Ok([s EXCEPT !.dapp.address_book =
                          AddAll(RemoveAll(@, to_remove), to_add)],
            <<>>)

update_address_book(s, sender, to_add, to_remove) ==
    IF ~is_admin(s.dapp.admin, sender)
    THEN Err(s, "NotAdmin")
    ELSE Ok([s EXCEPT !.dapp.address_book =
                          RemoveAll(AddAll(@, to_add), to_remove)],
            <<>>)

\* dapp-base: the address stored under a name of the address book.
load_contract_addr(book, name) ==
    IF name \in DOMAIN book
    THEN [err |-> "", addr |-> book[name]]
    ELSE [err |-> "NotFound", addr |-> ""]

update_config_trader_only(s, sender, treasury_address, trader) ==
    IF ~is_admin(s.dapp.admin, sender)
    THEN Err(s, "NotAdmin")
    ELSE IF treasury_address # None /\ ~addr_validate(treasury_address[1])
    THEN Err(s, "InvalidAddress")
    ELSE IF trader # None /\ ~addr_validate(trader[1])
    THEN Err(s, "InvalidAddress")
    ELSE Ok([s EXCEPT !.dapp.state.trader =
                          IF trader # None THEN trader[1] ELSE @],
            <<>>)

update_config(s, sender, treasury_address, trader) ==
    IF ~is_admin(s.dapp.admin, sender)
    THEN Err(s, "NotAdmin")
    ELSE IF treasury_address # None /\ ~addr_validate(treasury_address[1])
    THEN Err(s, "InvalidAddress")
    ELSE IF trader # None /\ ~addr_validate(trader[1])
    THEN Err(s, "InvalidAddress")
    ELSE Ok([s EXCEPT
                !.dapp.state.treasury_address =
                    IF treasury_address # None THEN treasury_address[1] ELSE @,
                !.dapp.state.trader =
                    IF trader # None THEN trader[1] ELSE @],
            <<>>)

\* dapp-base set_admin: the sender is checked first.
dapp_set_admin(s, sender, admin) ==
    IF ~is_admin(s.dapp.admin, sender)
    THEN Err(s, "NotAdmin")
    ELSE IF ~addr_validate(admin)
    THEN Err(s, "InvalidAddress")
    ELSE Ok([s EXCEPT !.dapp.admin = admin], <<>>)

\* The callers and the arguments tried.  A call's record holds, as amount,
\* the place of its arguments in the list of its operation.
AdminCallers == {AdminAddr, "alice"}

LunaCapArgs == <<0, 5>>

SetAdminArgs == <<"alice", "">>

SetFeeArgs ==
    <<[flash_loan_fee |-> None, treasury_fee |-> None, commission_fee |-> None],
      [flash_loan_fee |-> Some(200), treasury_fee |-> None, commission_fee |-> None]>>

WhitelistArgs == <<"alice", "arb", "bob">>

UpdateStateArgs ==
    <<[bluna_address |-> None, memory_address |-> None,
       allow_non_whitelisted |-> None],
      [bluna_address |-> Some("alice"), memory_address |-> None,
       allow_non_whitelisted |-> Some(TRUE)]>>

UpdateConfigArgs ==
    <<[treasury_address |-> None, trader |-> None],
      [treasury_address |-> Some("alice"), trader |-> None],
      [treasury_address |-> None, trader |-> Some("arb")],
      [treasury_address |-> Some("arb"), trader |-> Some("alice")],
      [treasury_address |-> Some("alice"), trader |-> Some("")]>>

AddressBookArgs ==
    <<[to_add |-> <<>>, to_remove |-> <<>>],
      [to_add |-> << <<"pair", "alice">> >>, to_remove |-> <<>>],
      [to_add |-> << <<"pair", "arb">> >>, to_remove |-> <<"pair">>],
      [to_add |-> << <<"pair", "arb">>, <<"lp", "alice">> >>, to_remove |-> <<>>],
      [to_add |-> << <<"lp", "arb">> >>, to_remove |-> <<"pair">>],
      [to_add |-> << <<"lp", "alice">>, <<"lp", "arb">> >>, to_remove |-> <<"pool">>]>>

SetLunaCap(sender, i) ==
    /\ Idle
    /\ LET out == set_luna_cap(store, sender, LunaCapArgs[i])
       IN  Invoke(Call("set_luna_cap", sender, i, "", "", out), out, bank)

SetAdmin(sender, i) ==
    /\ Idle
    /\ LET out == set_admin(store, sender, SetAdminArgs[i])
       IN  Invoke(Call("set_admin", sender, i, "", "", out), out, bank)

SetFee(sender, i) ==
    /\ Idle
    /\ LET out == set_fee(store, sender, SetFeeArgs[i].flash_loan_fee,
                          SetFeeArgs[i].treasury_fee,
                          SetFeeArgs[i].commission_fee)
       IN  Invoke(Call("set_fee", sender, i, "", "", out), out, bank)

AddToWhitelist(sender, i) ==
    /\ Idle
    /\ LET out == add_to_whitelist(store, sender, WhitelistArgs[i])
       IN  Invoke(Call("add_to_whitelist", sender, i, "", "", out), out, bank)

RemoveFromWhitelist(sender, i) ==
    /\ Idle
    /\ LET out == remove_from_whitelist(store, sender, WhitelistArgs[i])
       IN  Invoke(Call("remove_from_whitelist", sender, i, "", "", out), out, bank)

UpdateState(sender, i) ==
    /\ Idle
    /\ LET out == update_state(store, sender, UpdateStateArgs[i].bluna_address,
                               UpdateStateArgs[i].memory_address,
                               UpdateStateArgs[i].allow_non_whitelisted)
       IN  Invoke(Call("update_state", sender, i, "", "", out), out, bank)

UpdateAddressBook(sender, i) ==
    /\ Idle
    /\ LET out == update_address_book(store, sender, AddressBookArgs[i].to_add,
                                      AddressBookArgs[i].to_remove)
       IN  Invoke(Call("update_address_book", sender, i, "", "", out), out, bank)

UpdateConfig(sender, i) ==
    /\ Idle
    /\ LET out == update_config(store, sender,
                                UpdateConfigArgs[i].treasury_address,
                                UpdateConfigArgs[i].trader)
       IN  Invoke(Call("update_config", sender, i, "", "", out), out, bank)

DappSetAdmin(sender, i) ==
    /\ Idle
    /\ LET out == dapp_set_admin(store, sender, SetAdminArgs[i])
       IN  Invoke(Call("dapp_set_admin", sender, i, "", "", out), out, bank)

\* The calls that succeeded before governance starts: the instantiation of
\* the vault and of the dapp.
AdminCallsMade == 2

AdminInit ==
    /\ store = InitStore(FALSE)
    /\ bank = InitBank(0)
    /\ now = StartTime
    /\ queue = <<>>
    /\ saved = NoSave
    /\ last = NoCall
    /\ ncalls = AdminCallsMade

AdminNext ==
    \E sender \in AdminCallers :
        \/ \E i \in DOMAIN LunaCapArgs : SetLunaCap(sender, i)
        \/ \E i \in DOMAIN SetAdminArgs : SetAdmin(sender, i)
        \/ \E i \in DOMAIN SetFeeArgs : SetFee(sender, i)
        \/ \E i \in DOMAIN WhitelistArgs : AddToWhitelist(sender, i)
        \/ \E i \in DOMAIN WhitelistArgs : RemoveFromWhitelist(sender, i)
        \/ \E i \in DOMAIN UpdateStateArgs : UpdateState(sender, i)
        \/ \E i \in DOMAIN AddressBookArgs : UpdateAddressBook(sender, i)
        \/ \E i \in DOMAIN UpdateConfigArgs : UpdateConfig(sender, i)
        \/ \E i \in DOMAIN SetAdminArgs : DappSetAdmin(sender, i)

AdminSpec == AdminInit /\ [][AdminNext]_vars

(***************************************************************************)
(* contracts/stable-arb-astro/src/contract.rs: the arbitrage contract, a   *)
(* whitelisted borrower of the vault.  Its base asset is the vault's; the  *)
(* asset it trades through is not tracked: a swap that offers the base     *)
(* asset lowers the contract's balance, a swap that offers the other one   *)
(* raises it by what the market returns.                                   *)
(***************************************************************************)
ArbAddr == "arb"

ArbLoans == {5, 10}

\* The callback messages the contract may be sent.
ArbCallbackMsgs == [above_peg : BOOLEAN, amount : ArbLoans]

\* to_binary of a callback message, and from_binary of the bytes.
to_binary(msg) ==
    (IF msg.above_peg THEN "above_peg_callback:" ELSE "below_peg_callback:")
        \o ToString(msg.amount)

from_binary(bytes) == CHOOSE msg \in ArbCallbackMsgs : to_binary(msg) = bytes

\* What the second swap returns, relative to the amount lent.
ArbSwapGains == {-1, 0, 2}

\* call_flashloan: anyone may start an arbitrage; the contract asks the vault
\* for the loan and names its own callback.
call_flashloan(s, amount, denom, above_peg) ==
    IF denom # LUNA_DENOM
    THEN Err(s, "WrongAsset")
    ELSE Ok(s, <<Msg("FlashLoan", VaultAddr, amount,
                     to_binary([above_peg |-> above_peg, amount |-> amount]))>>)

try_arb_below_peg_callback_first(s, b, sender, details) ==
    LET lent_coin == details.amount
                     - compute_tax([denom |-> LUNA_DENOM, amount |-> details.amount])
    IN  IF sender # VaultAddr
        THEN Err(s, "Unauthorized")
        ELSE IF b.coins[ArbAddr] < details.amount
        THEN Err(s, "Broke")
        ELSE Ok(s, <<Msg("ArbCallback", ArbAddr, 0, ""),
                     Msg("MarketSwap", "market", lent_coin, "offer_base"),
                     Msg("AstroSwap", "pool", lent_coin, "offer_other")>>)

\* try_arb_below_peg: the market swap out of the base asset, the pool swap
\* back into it, then the contract's own callback.
try_arb_below_peg(s, b, sender, details) ==
    LET lent_coin == details.amount
                     - compute_tax([denom |-> LUNA_DENOM, amount |-> details.amount])
    IN  IF sender # VaultAddr
        THEN Err(s, "Unauthorized")
        ELSE IF b.coins[ArbAddr] < details.amount
        THEN Err(s, "Broke")
        ELSE Ok(s, <<Msg("MarketSwap", "market", lent_coin, "offer_base"),
                     Msg("AstroSwap", "pool", lent_coin, "offer_other"),
                     Msg("ArbCallback", ArbAddr, 0, "")>>)

\* try_arb_above_peg: the pool swap first, the market swap second.
try_arb_above_peg(s, b, sender, details) ==
    LET lent_coin == details.amount
                     - compute_tax([denom |-> LUNA_DENOM, amount |-> details.amount])
    IN  IF sender # VaultAddr
        THEN Err(s, "Unauthorized")
        ELSE IF b.coins[ArbAddr] < details.amount
        THEN Err(s, "Broke")
        ELSE Ok(s, <<Msg("AstroSwap", "pool", lent_coin, "offer_base"),
                     Msg("MarketSwap", "market", lent_coin, "offer_other"),
                     Msg("ArbCallback", ArbAddr, 0, "")>>)

\* execute's dispatch of the two callback messages.
arb_peg_callback(s, b, sender, bytes) ==
    IF from_binary(bytes).above_peg
    THEN try_arb_above_peg(s, b, sender, from_binary(bytes))
    ELSE try_arb_below_peg(s, b, sender, from_binary(bytes))

\* after_successful_trade_callback: the contract's whole balance of the base
\* asset goes back to the vault.
after_successful_trade_callback(s, b) ==
    Ok(s, <<Msg("ArbBankSend", VaultAddr, b.coins[ArbAddr], "")>>)

\* The contract's _handle_callback: only the contract itself may call it.
arb_handle_callback(s, b, sender) ==
    IF sender # ArbAddr
    THEN Err(s, "NotCallback")
    ELSE after_successful_trade_callback(s, b)

\* ExecuteArb, called by anyone.
ExecuteArb(sender, amount, denom, above_peg) ==
    /\ Idle
    /\ LET out == call_flashloan(store, amount, denom, above_peg)
       IN  Invoke(Call("execute_arb", sender, amount, denom,
                       IF above_peg THEN "above_peg" ELSE "below_peg", out),
                  out, bank)

\* One of the peg callbacks called directly, outside a loan.
ArbPegCallback(sender, msg) ==
    /\ Idle
    /\ LET out == arb_peg_callback(store, bank, sender, to_binary(msg))
       IN  Invoke(Call("arb_peg_callback", sender, msg.amount, "",
                       to_binary(msg), out),
                  out, bank)

\* The contract's Callback message sent by someone else.
ArbCallback(sender) ==
    /\ Idle
    /\ sender # ArbAddr
    /\ LET out == arb_handle_callback(store, bank, sender)
       IN  Invoke(Call("arb_callback", sender, 0, "", "", out), out, bank)

\* The vault receives the contract's FlashLoan message.
ExecFlashLoan ==
    /\ queue # <<>>
    /\ Head(queue).type = "FlashLoan"
    /\ LET payload == [requested_asset |-> [denom |-> LUNA_DENOM,
                                            amount |-> Head(queue).amount],
                       callback |-> Head(queue).data]
           out == handle_flashloan(store, bank, ArbAddr, payload)
       IN  /\ last' = Call("flash_loan", ArbAddr, Head(queue).amount, LUNA_DENOM,
                           Head(queue).data, out)
           /\ IF out.err = ""
              THEN Executed(out.store, bank, out.msgs)
              ELSE Rollback

\* The contract receives the callback the vault was given.
ExecArbPegCallback ==
    /\ queue # <<>>
    /\ Head(queue).type = "Execute"
    /\ Head(queue).to = ArbAddr
    /\ LET out == arb_peg_callback(store, bank, VaultAddr, Head(queue).data)
       IN  /\ last' = Call("arb_peg_callback", VaultAddr,
                           from_binary(Head(queue).data).amount, "",
                           Head(queue).data, out)
           /\ IF out.err = ""
              THEN Executed(out.store, bank, out.msgs)
              ELSE Rollback

\* A swap executes: it takes the base asset offered, or returns base asset
\* for the other asset offered; or it fails.
ExecSwap(gain) ==
    /\ queue # <<>>
    /\ Head(queue).type \in {"MarketSwap", "AstroSwap"}
    /\ Executed(store,
                [bank EXCEPT !.coins[ArbAddr] =
                    IF Head(queue).data = "offer_base"
                    THEN @ - Head(queue).amount
                    ELSE @ + Head(queue).amount + gain],
                <<>>)
    /\ last' = last

ExecSwapFails ==
    /\ queue # <<>>
    /\ Head(queue).type \in {"MarketSwap", "AstroSwap"}
    /\ Rollback
    /\ last' = Call("swap", ArbAddr, Head(queue).amount, "", Head(queue).data,
                    [err |-> "SwapFailed", msgs |-> <<>>])

\* The contract receives its own Callback message.
ExecArbCallback ==
    /\ queue # <<>>
    /\ Head(queue).type = "ArbCallback"
    /\ LET out == arb_handle_callback(store, bank, ArbAddr)
       IN  /\ last' = Call("arb_callback", ArbAddr, 0, "", "", out)
           /\ Executed(out.store, bank, out.msgs)

\* The bank module moving the contract's coins to the vault.
ExecArbBankSend ==
    /\ queue # <<>>
    /\ Head(queue).type = "ArbBankSend"
    /\ Executed(store,
                [bank EXCEPT !.vault = @ + Head(queue).amount,
                             !.coins[ArbAddr] = @ - Head(queue).amount],
                <<>>)
    /\ last' = last

ArbInit ==
    /\ store = LedgerStore(LoanLedgerSnapshot)
    /\ bank = LedgerBank(LoanLedgerSnapshot)
    /\ now = StartTime
    /\ queue = <<>>
    /\ saved = NoSave
    /\ last = NoCall
    /\ ncalls = LedgerCallsMade

ArbNext ==
    \/ \E a \in Addrs, n \in ArbLoans, d \in Denoms, above \in BOOLEAN :
           ExecuteArb(a, n, d, above)
    \/ \E a \in Addrs, msg \in ArbCallbackMsgs : ArbPegCallback(a, msg)
    \/ \E a \in Addrs : ArbCallback(a)
    \/ ExecFlashLoan
    \/ ExecBankSend
    \/ ExecArbPegCallback
    \/ \E gain \in ArbSwapGains : ExecSwap(gain)
    \/ ExecSwapFails
    \/ ExecArbCallback
    \/ ExecArbBankSend
    \/ ExecAfterTrade

ArbSpec == ArbInit /\ [][ArbNext]_vars

(***************************************************************************)
(* Properties of the flash-loan protocol.                                  *)
(***************************************************************************)
LoanInFlight == store.profit.last_balance # 0

\* The ledger records: VaultState, CurrentBatch, UnbondHistory, UnbondWaitEntry.
Ledger(s) == <<s.state, s.current_batch, s.history, s.wait>>

Valuation(b) == compute_total_value(b)[1]

\* The step is a handler call (a failed call changes `last` alone).
CallStep == last' # last \/ ncalls' # ncalls

\* The next message to execute is the vault's AfterTrade callback.
AtAfterTrade == queue # <<>> /\ Head(queue).type = "AfterTrade"

Whitelisted(s, a) == Contains(s.state.whitelisted_contracts, a)

\* C1: when after-trade runs with the valuation below the snapshot plus the
\* loan fee, it fails with the losing-trade error and the transaction is
\* rolled back: every record and every balance is as before the flashLoan
\* call.
C1_LosingTradeRolledBack ==
    [][(AtAfterTrade
        /\ Valuation(bank) < store.profit.last_balance + Head(queue).amount)
       => /\ last'.op = "after_trade"
          /\ last'.err = "CancelLosingTrade"
          /\ saved.active
          /\ saved.store.profit.last_balance = 0
          /\ store' = saved.store
          /\ bank' = saved.bank
          /\ queue' = <<>>]_vars

\* A loan was repaid short of its fee and the transaction was undone.
C1_Witness ==
    /\ last.op = "after_trade"
    /\ last.err = "CancelLosingTrade"
    /\ last.amount > 0
    /\ queue = <<>>
    /\ store.profit.last_balance = 0
    /\ bank.vault >= 20

\* The commission transfer of a flash loan is the next message.
AtCommission ==
    /\ queue # <<>>
    /\ Head(queue).type = "BankSend"
    /\ Head(queue).to = TreasuryAddr

\* C2: in a flash-loan transaction that commits, the valuation at after-trade
\* is at least the pre-loan snapshot plus the loan fee, and once the
\* commission transfer has executed it is still at least the snapshot.
C2_ValuationNeverDecreases ==
    [][/\ (LoanInFlight /\ saved.active)
          => store.profit.last_balance = Valuation(saved.bank)
       /\ (AtAfterTrade /\ queue' # queue /\ last'.err = "")
          => Valuation(bank) >= Valuation(saved.bank) + Head(queue).amount
       /\ (AtCommission /\ queue' # queue)
          => Valuation(bank') >= Valuation(saved.bank)]_vars

\* A flash loan committed with a profit and a commission paid out of it.
C2_Witness ==
    /\ queue = <<>>
    /\ last.op = "after_trade"
    /\ last.err = ""
    /\ store.profit.last_profit = 2
    /\ last.msgs[1].amount = 1

C4_LedgerCallsRefusedDuringLoan ==
    [][(CallStep /\ LoanInFlight
        /\ \/ last'.op = "provide_liquidity"
           \/ last'.op = "receive_cw20" /\ last'.data = LiquidityToken)
       => /\ last'.err = "DepositDuringLoan"
          /\ last'.msgs = <<>>
          /\ UNCHANGED <<store, bank, queue, saved>>]_vars

\* A borrower holding receipt tokens asked to unbond them during its loan.
C4_Witness ==
    /\ InBorrower
    /\ LoanInFlight
    /\ last.op = "receive_cw20"
    /\ last.data = LiquidityToken
    /\ last.err = "DepositDuringLoan"
    /\ bank.lp[last.sender] >= last.amount

\* C5: while a loan is outstanding no step changes the ledger records.
C5_NoLedgerMutationDuringLoan ==
    [][LoanInFlight => Ledger(store') = Ledger(store)]_vars

\* C6: a successful flashLoan returns exactly the loan transfer to the caller,
\* the caller's callback and the vault's AfterTrade callback, in this order;
\* AfterTrade is never the next message while a callback or another message
\* of the loan is still to be executed.
C6_EffectOrder ==
    /\ (last.op = "flash_loan" /\ last.err = "")
       => last.msgs = <<Msg("BankSend", last.sender, last.amount, ""),
                        Msg("Execute", last.sender, 0, last.data),
                        Msg("AfterTrade", VaultAddr, last.msgs[3].amount, "")>>
    /\ AtAfterTrade => Len(queue) = 1

\* A loan was just dispatched: its three messages are all still to run.
C6_Witness ==
    /\ last.op = "flash_loan"
    /\ last.err = ""
    /\ last.amount > 0
    /\ last.data = "cb2"
    /\ queue = last.msgs

\* C7: an AfterTrade callback whose sender is not the vault is rejected with
\* the not-a-callback error and changes nothing.
C7_CallbackOnlyFromVault ==
    [][(CallStep /\ last'.op = "callback")
       => /\ last'.sender # VaultAddr
          /\ last'.err = "NotCallback"
          /\ last'.msgs = <<>>
          /\ UNCHANGED <<store, bank, queue, saved>>]_vars

\* A borrower tried to settle its own loan by sending AfterTrade itself.
C7_Witness ==
    /\ InBorrower
    /\ LoanInFlight
    /\ last.op = "callback"
    /\ last.err = "NotCallback"
    /\ bank.vault < store.profit.last_balance

\* C8: when after-trade finds the valuation at or above the snapshot plus the
\* fee it succeeds: last_profit is the valuation less the snapshot (not
\* negative), last_balance is 0, and the one message it emits is the transfer
\* to the treasury of the commission share of that profit, rounded down.
C8_AfterTradeSettles ==
    [][(AtAfterTrade /\ queue' # queue
        /\ Valuation(bank) >= store.profit.last_balance + Head(queue).amount)
       => LET profit == Valuation(bank) - store.profit.last_balance
          IN  /\ last'.op = "after_trade"
              /\ last'.err = ""
              /\ profit >= 0
              /\ store'.profit = [last_balance |-> 0, last_profit |-> profit]
              /\ Len(last'.msgs) = 1
              /\ last'.msgs[1].type = "BankSend"
              /\ last'.msgs[1].to = store.fee.treasury_addr
              /\ last'.msgs[1].amount * DECIMAL_FRACTIONAL
                     <= profit * store.fee.commission_fee
              /\ profit * store.fee.commission_fee
                     < (last'.msgs[1].amount + 1) * DECIMAL_FRACTIONAL
              /\ queue' = last'.msgs]_vars

\* After-trade has just settled a loan that made a profit of 2: the commission
\* of 1 is the next message.
C8_Witness ==
    /\ last.op = "after_trade"
    /\ last.err = ""
    /\ store.profit = [last_balance |-> 0, last_profit |-> 2]
    /\ queue = <<Msg("BankSend", TreasuryAddr, 1, "")>>

\* C9: flashLoan succeeds only if the caller is whitelisted or open borrowing
\* is allowed, the asset is the base denomination, and the valuation covers
\* the amount plus two transfer taxes plus the rounding compensation; a call
\* that fails schedules nothing and changes nothing, and fails with
\* NotWhitelisted, WrongAsset or Broke only when that condition fails.
C9_Eligibility ==
    [][(CallStep /\ last'.op = "flash_loan")
       => LET asset == [denom |-> last'.denom, amount |-> last'.amount]
              eligible == \/ Whitelisted(store, last'.sender)
                          \/ store.state.allow_non_whitelisted
              base == last'.denom = store.deposit_info
              covered == Valuation(bank) >= last'.amount + 2 * compute_tax(asset)
                                            + ROUNDING_ERR_COMPENSATION
          IN  /\ last'.err = "" => (eligible /\ base /\ covered)
              /\ last'.err # ""
                 => /\ last'.msgs = <<>>
                    /\ UNCHANGED <<store, bank, queue, saved>>
              /\ last'.err = "NotWhitelisted" => ~eligible
              /\ last'.err = "WrongAsset" => ~base
              /\ last'.err = "Broke" => ~covered
              /\ ~(eligible /\ base /\ covered)
                 => last'.err \in {"NotWhitelisted", "WrongAsset", "Broke"}]_vars

\* A loan as large as the vault's whole balance was refused for lack of the
\* buffer.
C9_Witness ==
    /\ last.op = "flash_loan"
    /\ last.err = "Broke"
    /\ last.denom = LUNA_DENOM
    /\ bank.vault = last.amount
    /\ last.amount > 0

\* C10: the loan_fee carried by the scheduled AfterTrade callback is 0 for a
\* whitelisted caller and the flash_loan_fee share of the requested amount
\* otherwise, and after-trade fails exactly when the valuation is below the
\* snapshot plus that carried fee.
C10_LoanFee ==
    [][/\ (CallStep /\ last'.op = "flash_loan" /\ last'.err = "")
          => /\ last'.msgs[3].type = "AfterTrade"
             /\ queue'[3] = last'.msgs[3]
             /\ last'.msgs[3].amount =
                    IF Whitelisted(store, last'.sender) THEN 0
                    ELSE (last'.amount * store.fee.flash_loan_fee)
                         \div DECIMAL_FRACTIONAL
       /\ (AtAfterTrade /\ queue' # queue)
          => /\ last'.op = "after_trade"
             /\ last'.amount = Head(queue).amount
             /\ (last'.err # "")
                   <=> (Valuation(bank) < store.profit.last_balance
                                          + Head(queue).amount)]_vars

\* A caller that is not whitelisted holds a loan of 10 carrying a fee of 1.
C10_Witness ==
    /\ InBorrower
    /\ last.op = "flash_loan"
    /\ last.err = ""
    /\ ~Whitelisted(store, last.sender)
    /\ last.amount = 10
    /\ queue[2] = Msg("AfterTrade", VaultAddr, 1, "")

(***************************************************************************)
(* Properties of the ledger: deposits and unbond requests.                 *)
(***************************************************************************)
\* The step is a deposit call.
DepositStep == CallStep /\ last'.op = "provide_liquidity"

\* The step is an unbond request made with the receipt token.
UnbondStep ==
    CallStep /\ last'.op = "receive_cw20" /\ last'.data = LiquidityToken

BelowThreshold == store.state.exchange_rate < store.params.er_threshold

\* The raw mint amount of the deposit being made: deposit / exchange_rate.
RawMint == decimal_division(last'.amount, store.state.exchange_rate)

\* The peg fee a deposit structurally requires, as a signed number.
RequiredDepositFee ==
    (bank.supply + RawMint + store.current_batch.requested_with_fee)
    - (store.state.total_bond_amount + last'.amount)

\* The peg fee an unbond request structurally requires, as a signed number.
RequiredUnbondFee ==
    (bank.supply + store.current_batch.requested_with_fee)
    - store.state.total_bond_amount

\* C11: in an accepted deposit the net mint amount is at most the raw mint
\* amount, and equal to it when the exchange rate is at or above the
\* threshold; no deposit fails on the subtraction of the peg fee from the raw
\* mint amount (an arithmetic failure of a deposit is that of a negative
\* required fee).
C11_PegFeeWithinRawMint ==
    [][DepositStep
       => /\ last'.err = ""
             => /\ last'.msgs[1].type = "Mint"
                /\ last'.msgs[1].amount >= 0
                /\ last'.msgs[1].amount <= RawMint
                /\ ~BelowThreshold => last'.msgs[1].amount = RawMint
          /\ last'.err = "Overflow"
             => BelowThreshold /\ RequiredDepositFee < 0]_vars

\* A deposit of 10 at the rate 0.8 was accepted: of the raw mint of 12, the
\* peg fee took 6.
C11_Witness ==
    /\ last.op = "provide_liquidity"
    /\ last.err = ""
    /\ last.amount = 10
    /\ store.params.peg_recovery_fee = 500
    /\ last.msgs[1].amount = 6

\* C12: when the exchange rate is below the threshold and the required peg fee
\* would be negative, no fee is levied and the operation goes ahead: a deposit
\* is accepted and mints the raw mint amount; an unbond request does not fail
\* on its arithmetic, and when accepted it adds the amount less the treasury
\* fee alone to the batch.
C12_NegativeRequiredFeeIsNoFee ==
    [][/\ (DepositStep /\ BelowThreshold /\ RequiredDepositFee < 0)
          => /\ last'.err = ""
             /\ last'.msgs[1].amount = RawMint
       /\ (UnbondStep /\ BelowThreshold /\ RequiredUnbondFee < 0)
          => /\ last'.err # "Overflow"
             /\ last'.err = ""
                => \E k \in DOMAIN store'.wait :
                      /\ k[2] = last'.sender
                      /\ store'.wait[k] =
                            last'.amount - get_treasury_fee(store, last'.amount)
                            + (IF k \in DOMAIN store.wait THEN store.wait[k] ELSE 0)]_vars

\* The stored exchange rate is total_bond_amount over the receipt supply plus
\* the pending requests, give or take the rounding of the rate and of one
\* unit of the bonded amount.
RateMatchesLedger ==
    LET shares == bank.supply + store.current_batch.requested_with_fee
        rate == store.state.exchange_rate
        bonded == store.state.total_bond_amount
    IN  shares > 0
        => /\ rate * shares <= DECIMAL_FRACTIONAL * (bonded + 1)
           /\ DECIMAL_FRACTIONAL * (bonded - 1) < (rate + 1) * shares

\* The last message of a transaction executes.
Completes == queue # <<>> /\ queue' = <<>> /\ saved.active /\ store' # saved.store

\* C13: a successful deposit raises total_bond_amount by the deposit and
\* stores the rate computed with the supply including the net mint amount;
\* once the messages of a successful deposit or unbond request have executed,
\* the stored rate is total_bond_amount over the actual receipt supply plus
\* requested_with_fee, up to rounding.
C13_RateIsBondOverSupply ==
    [][/\ (DepositStep /\ last'.err = "")
          => /\ store'.state.total_bond_amount
                    = store.state.total_bond_amount + last'.amount
             /\ store'.state.exchange_rate
                    = Decimal_from_ratio(store'.state.total_bond_amount,
                          bank.supply + last'.msgs[1].amount
                          + store.current_batch.requested_with_fee)
       /\ (Completes /\ last.op \in {"provide_liquidity", "receive_cw20"})
          => RateMatchesLedger']_vars

\* The peg fee of the unbond request being made.
UnbondPegFee ==
    IF BelowThreshold
    THEN Min(MulDec(last'.amount, store.params.peg_recovery_fee), RequiredUnbondFee)
    ELSE 0

\* The wait entry of an address in a batch; 0 when there is none.
WaitEntry(s, id, sender) ==
    IF <<id, sender>> \in DOMAIN s.wait THEN s.wait[<<id, sender>>] ELSE 0

\* The requests gathered in batch id: pending in the current batch, or frozen
\* in the batch's history record.
Requested(s, id) ==
    IF s.current_batch.id = id THEN s.current_batch.requested_with_fee
    ELSE s.history[id].amount

\* C14: an accepted unbond request of amount takes the treasury fee on the
\* whole amount; the sender's wait entry in the current batch and the
\* batch's requested_with_fee both grow by amount - peg_fee - treasury_fee
\* (peg_fee = 0 at or above the threshold); the burn is for
\* amount - treasury_fee and the treasury transfer for treasury_fee.
C14_UnbondFees ==
    [][(UnbondStep /\ last'.err = "")
       => LET amount == last'.amount
              treasury_fee == MulDec(amount, store.fee.treasury_fee)
              net == amount - UnbondPegFee - treasury_fee
              id == store.current_batch.id
          IN  /\ ~BelowThreshold => UnbondPegFee = 0
              /\ WaitEntry(store', id, last'.sender)
                    = WaitEntry(store, id, last'.sender) + net
              /\ Requested(store', id) = Requested(store, id) + net
              /\ last'.msgs = <<Msg("Burn", LiquidityToken, amount - treasury_fee, ""),
                                Msg("Cw20Transfer", store.fee.treasury_addr,
                                    treasury_fee, "")>>
              /\ last'.msgs[1].amount + last'.msgs[2].amount = amount]_vars

\* An unbond request of 10 at the rate 0.8 was accepted: the peg fee took 4,
\* the treasury 1, and 5 went to the sender's wait entry.
C14_Witness ==
    /\ last.op = "receive_cw20"
    /\ last.err = ""
    /\ last.amount = 10
    /\ last.msgs[1].amount = 9
    /\ last.msgs[2].amount = 1
    /\ \E id \in 1..MaxBatchId : WaitEntry(store, id, last.sender) = 5

\* The time since the last batch was closed.
PassedTime == now - store.state.last_unbonded_time

\* What the accepted unbond request of this step adds to its batch.
NetRequest ==
    WaitEntry(store', store.current_batch.id, last'.sender)
    - WaitEntry(store, store.current_batch.id, last'.sender)

\* The rate an unbond request recomputes: total_bond_amount over the supply
\* less the amount, plus the requests including this one.
RecomputedRate ==
    LET shares == (bank.supply - last'.amount)
                  + store.current_batch.requested_with_fee + NetRequest
    IN  IF shares = 0 THEN store.state.exchange_rate
        ELSE Decimal_from_ratio(store.state.total_bond_amount, shares)

\* C15: an accepted unbond request arriving more than epoch_period after
\* last_unbonded_time creates exactly one UnbondHistory record, for the batch
\* that was current: its amount is requested_with_fee with this request, its
\* time is now, its two rates are the recomputed exchange rate and it is not
\* released; total_bond_amount falls by that amount times the rate, the batch
\* id grows by 1, requested_with_fee is 0 and last_unbonded_time is now.
C15_EpochRollover ==
    [][(UnbondStep /\ last'.err = "" /\ PassedTime > store.params.epoch_period)
       => LET id == store.current_batch.id
              amount == store.current_batch.requested_with_fee + NetRequest
          IN  /\ id \notin DOMAIN store.history
              /\ DOMAIN store'.history = DOMAIN store.history \cup {id}
              /\ \A i \in DOMAIN store.history : store'.history[i] = store.history[i]
              /\ store'.history[id] =
                    [batch_id |-> id,
                     time |-> now,
                     amount |-> amount,
                     applied_exchange_rate |-> RecomputedRate,
                     withdraw_rate |-> RecomputedRate,
                     released |-> FALSE]
              /\ store'.state.exchange_rate = RecomputedRate
              /\ store'.state.total_bond_amount
                    = store.state.total_bond_amount - MulDec(amount, RecomputedRate)
              /\ store'.current_batch = [id |-> id + 1, requested_with_fee |-> 0]
              /\ store'.state.last_unbonded_time = now]_vars

\* A request has just closed a batch that held an earlier request of another
\* address as well.
C15_Witness ==
    /\ last.op = "receive_cw20"
    /\ last.err = ""
    /\ queue = last.msgs
    /\ \E id \in DOMAIN store.history :
          /\ store.current_batch = [id |-> id + 1, requested_with_fee |-> 0]
          /\ store.history[id].time = now
          /\ store.state.last_unbonded_time = now
          /\ WaitEntry(store, id, last.sender) > 0
          /\ store.history[id].amount > WaitEntry(store, id, last.sender)

\* C16: an accepted unbond request arriving at most epoch_period after
\* last_unbonded_time adds to requested_with_fee and to the wait entry and
\* recomputes the exchange rate, and changes nothing else: total_bond_amount,
\* the batch id, last_unbonded_time and the histories are as before.
C16_NoRolloverWithinEpoch ==
    [][(UnbondStep /\ last'.err = "" /\ PassedTime <= store.params.epoch_period)
       => /\ NetRequest >= 0
          /\ store' =
                [store EXCEPT
                    !.state.exchange_rate = RecomputedRate,
                    !.current_batch.requested_with_fee = @ + NetRequest,
                    !.wait = store'.wait]
          /\ DOMAIN store'.wait
                = DOMAIN store.wait \cup {<<store.current_batch.id, last'.sender>>}
          /\ \A k \in DOMAIN store.wait :
                k # <<store.current_batch.id, last'.sender>>
                => store'.wait[k] = store.wait[k]]_vars

\* A request was accepted exactly epoch_period after the last batch closed,
\* and waits in the open batch.
C16_Witness ==
    /\ last.op = "receive_cw20"
    /\ last.err = ""
    /\ queue = last.msgs
    /\ now - store.state.last_unbonded_time = store.params.epoch_period
    /\ store.current_batch.requested_with_fee > 0
    /\ WaitEntry(store, store.current_batch.id, last.sender) > 0
    /\ store.current_batch.id \notin DOMAIN store.history

\* What the unbond request being made is to add to its batch.
ExpectedNet ==
    last'.amount - UnbondPegFee - MulDec(last'.amount, store.fee.treasury_fee)

\* The request being made gets as far as the rollover: no loan is in flight
\* and none of the subtractions before it fails.
ReachesRollover ==
    /\ ~LoanInFlight
    /\ ~(BelowThreshold /\ RequiredUnbondFee < 0)
    /\ ExpectedNet >= 0
    /\ bank.supply >= last'.amount
    /\ PassedTime > store.params.epoch_period

\* The undelegation amount of the rollover the request being made triggers.
ExpectedUndelegation ==
    LET requested == store.current_batch.requested_with_fee + ExpectedNet
        shares == (bank.supply - last'.amount) + requested
        rate == IF shares = 0 THEN store.state.exchange_rate
                ELSE Decimal_from_ratio(store.state.total_bond_amount, shares)
    IN  MulDec(requested, rate)

\* C17: an unbond request fails with the too-small error exactly when it
\* triggers a rollover whose undelegation amount is 1; it then schedules
\* nothing and changes nothing.  With any other undelegation amount, 0
\* included, the rollover is processed.
C17_TooSmallRelease ==
    [][UnbondStep
       => /\ (last'.err = "TooSmallBurn")
             <=> (ReachesRollover /\ ExpectedUndelegation = 1)
          /\ last'.err = "TooSmallBurn"
             => /\ last'.msgs = <<>>
                /\ UNCHANGED <<store, bank, queue, saved>>
          /\ (ReachesRollover /\ ExpectedUndelegation # 1)
             => /\ last'.err = ""
                /\ store.current_batch.id \in DOMAIN store'.history]_vars

\* A request of 1 receipt token at the rate 1.0 was to close its batch with
\* an undelegation amount of 1, and was refused.
C17_Witness ==
    /\ last.op = "receive_cw20"
    /\ last.err = "TooSmallBurn"
    /\ last.amount = 1
    /\ store.state.exchange_rate = Decimal_one
    /\ store.current_batch.requested_with_fee = 0
    /\ \A k \in DOMAIN store.wait : k[1] # store.current_batch.id

\* C18: the undelegation amount of a rollover never exceeds the stored
\* total_bond_amount: no unbond request fails on that subtraction.
C18_UndelegationWithinBond ==
    [][UnbondStep
       => /\ last'.err # "PanicUndelegation"
          /\ ReachesRollover
             => ExpectedUndelegation <= store.state.total_bond_amount]_vars

\* A rollover has just undelegated all but one unit of the bonded amount.
C18_Witness ==
    /\ last.op = "receive_cw20"
    /\ last.err = ""
    /\ queue = last.msgs
    /\ store.state.total_bond_amount <= 1
    /\ \E id \in DOMAIN store.history :
          /\ store.history[id].time = now
          /\ store.history[id].amount >= 9
          /\ store.current_batch.id = id + 1

(***************************************************************************)
(* Properties of the ledger: the reconciliation of withdraw rates.         *)
(***************************************************************************)
\* The step is an accepted withdrawal.
WithdrawStep == CallStep /\ last'.op = "withdraw_unbonded" /\ last'.err = ""

\* The batches the reconciliation of this step covers: ReconFirst up to, not
\* including, ReconEnd.
ReconFirst == store.state.last_processed_batch + 1

ReconEnd == ScanEnd(store, ReconFirst, now - store.params.unbonding_period)

ReconBatches == ReconFirst..(ReconEnd - 1)

\* The provisional unbonded amount of the batches covered, and the funds
\* received for them: the accumulator and the rise of the vault's balance
\* since the last withdrawal.
ReconTotal == TotalUnbonded(store, ReconFirst, ReconEnd)

ReconActual ==
    store.state.actual_unbonded_amount
    + (bank.vault - store.state.prev_vault_balance)

\* The finalized unbonded amount of batch i after a loss: the provisional
\* amount less floor(weight * loss) + 1, not below zero; the provisional
\* amount itself when the loss is zero.
FinalizedAfterLoss(i) ==
    LET h == store.history[i]
        batch == MulDec(h.amount, h.withdraw_rate)
        weight == Decimal_from_ratio(batch, ReconTotal)
        loss == ReconTotal - ReconActual
        charge == IF loss > 0 THEN MulDec(loss, weight) + 1 ELSE 0
    IN  IF batch > charge THEN batch - charge ELSE 0

\* C19: when reconciliation finds a loss (the vault's balance has not fallen
\* and the batches' provisional total is at least the funds received), each
\* batch covered is released at its provisional amount less
\* floor(weight * loss) + 1, saturating at zero, over its amount; a zero
\* loss charges nothing.
C19_LossCharge ==
    [][(/\ WithdrawStep
        /\ ReconBatches # {}
        /\ bank.vault >= store.state.prev_vault_balance
        /\ ReconTotal >= ReconActual)
       => \A i \in ReconBatches :
             /\ store'.history[i].released
             /\ store'.history[i].withdraw_rate
                   = Decimal_from_ratio(FinalizedAfterLoss(i), store.history[i].amount)]_vars

\* What the batches ids are worth in s: the sum of amount * withdraw_rate.
RECURSIVE FinalizedSum(_, _)
FinalizedSum(s, ids) ==
    IF ids = {} THEN 0
    ELSE LET i == CHOOSE x \in ids : TRUE
         IN  MulDec(s.history[i].amount, s.history[i].withdraw_rate)
             + FinalizedSum(s, ids \ {i})

\* The accumulator the reconciliation of this step works with: the stored
\* actual_unbonded_amount and the change of the vault's balance since the
\* last withdrawal, which the code adds whatever its sign.
ReconAccumulated ==
    store.state.actual_unbonded_amount
    + SignedInt_from_subtraction(bank.vault, store.state.prev_vault_balance)[1]

\* C20: after a reconciliation the batches it released are worth, at their
\* finalized withdraw rates, no more than the accumulated
\* actual_unbonded_amount, whether the balance change was a gain or a loss;
\* and the payout of the withdrawal is within the vault's balance.
C20_ReleasedWithinReceived ==
    [][(WithdrawStep /\ ReconBatches # {})
       => /\ \A i \in ReconBatches : store'.history[i].released
          /\ FinalizedSum(store', ReconBatches) <= ReconAccumulated
          /\ last'.msgs[1].amount <= bank.vault]_vars

\* The step is a call of withdrawUnbonded, accepted or not.
WithdrawCall == CallStep /\ last'.op = "withdraw_unbonded"

\* The reconciliation this call runs.
Reconciliation ==
    _process_withdraw_rate(store, now - store.params.unbonding_period, bank.vault)

\* The finalized unbonded amount of batch i after a gain: the provisional
\* amount plus floor(weight * gain) - 1.
FinalizedAfterGain(i) ==
    LET h == store.history[i]
        batch == MulDec(h.amount, h.withdraw_rate)
        weight == Decimal_from_ratio(batch, ReconTotal)
        gain == ReconActual - ReconTotal
    IN  batch + (MulDec(gain, weight) - 1)

\* C21: when reconciliation finds a gain (the vault's balance has not fallen
\* and the funds received exceed the batches' provisional total, itself not
\* zero), the
\* reconciliation completes, however small the gain, and each batch covered
\* is released at its provisional amount plus floor(weight * gain) - 1, over
\* its amount.
C21_GainShare ==
    [][(/\ WithdrawCall
        /\ now >= store.params.unbonding_period
        /\ ReconBatches # {}
        /\ bank.vault >= store.state.prev_vault_balance
        /\ ReconTotal > 0
        /\ ReconActual > ReconTotal)
       => /\ Reconciliation.err = ""
          /\ \A i \in ReconBatches :
                /\ Reconciliation.store.history[i].released
                /\ Reconciliation.store.history[i].withdraw_rate
                      = Decimal_from_ratio(FinalizedAfterGain(i),
                                           store.history[i].amount)]_vars

\* C22: the balance change fed into the accumulator is signed: the
\* reconciliation of an accepted withdrawal that releases batches works with
\* the stored actual_unbonded_amount plus the vault's balance minus
\* prev_vault_balance, raised by a rise of the balance and lowered by a drop.
C22_SignedBalanceChange ==
    [][(WithdrawStep /\ ReconBatches # {})
       => AccumulatedUnbonded(store.state.actual_unbonded_amount, bank.vault,
                              store.state.prev_vault_balance)
            = ReconActual]_vars

\* The step undoes a transaction that failed: the store is the one the
\* transaction began with.
RolledBack == saved.active /\ last'.err # "" /\ store' = saved.store

\* The unbonded amount the reconciliation of this step arrives at for batch
\* i: the provisional amount with the batch's share of the gain, less one,
\* added, or its share of the loss, plus one, taken off.
ReconFinalized(i) ==
    LET h == store.history[i]
        batch == MulDec(h.amount, h.withdraw_rate)
        share(d) == MulDec(d, Decimal_from_ratio(batch, ReconTotal))
    IN  IF ReconAccumulated > ReconTotal
        THEN batch + (share(ReconAccumulated - ReconTotal) - 1)
        ELSE IF ReconAccumulated = ReconTotal
        THEN batch
        ELSE SignedInt_from_subtraction(
                 batch, share(ReconTotal - ReconAccumulated) + 1)[1]

\* C23: last_processed_batch never decreases from one committed state to
\* the next; an accepted withdrawal gives each batch its reconciliation
\* covers the withdraw rate finalized amount / amount, marks it released and
\* leaves last_processed_batch at the highest of them, the batches covered
\* being the consecutive ids after the old pointer; no other step and no
\* other batch has a record released.
C23_ProcessingPointer ==
    [][/\ RolledBack
          \/ store'.state.last_processed_batch >= store.state.last_processed_batch
       /\ WithdrawStep
          => /\ \A i \in ReconBatches :
                   /\ store'.history[i].released
                   /\ store'.history[i].withdraw_rate
                         = Decimal_from_ratio(ReconFinalized(i),
                                              store.history[i].amount)
             /\ store'.state.last_processed_batch
                   = IF ReconBatches = {}
                     THEN store.state.last_processed_batch
                     ELSE ReconEnd - 1
             /\ ReconBatches
                   = (store.state.last_processed_batch + 1)
                         ..store'.state.last_processed_batch
       /\ \A i \in DOMAIN store'.history :
             (/\ store'.history[i].released
              /\ ~(i \in DOMAIN store.history /\ store.history[i].released)
              /\ ~RolledBack)
             => WithdrawStep /\ i \in ReconBatches]_vars

\* A withdrawal has released batches 1 and 2 in one reconciliation.
C23_Witness ==
    /\ last.op = "withdraw_unbonded"
    /\ last.err = ""
    /\ store.state.last_processed_batch = 2
    /\ store.history[1].released
    /\ store.history[2].released

Cutoff == now - store.params.unbonding_period

\* Batch i is not for release now: it does not exist, is released already
\* or closed after the cutoff.
Stops(i) ==
    \/ i \notin DOMAIN store.history
    \/ store.history[i].released
    \/ store.history[i].time > Cutoff

\* The first batch after last_processed_batch that is not for release.
StopPoint ==
    CHOOSE i \in (store.state.last_processed_batch + 1)..(MaxBatchId + 2) :
        /\ Stops(i)
        /\ \A j \in (store.state.last_processed_batch + 1)..(i - 1) : ~Stops(j)

\* Record i is released after the step and was not before it.
Releases(i) ==
    /\ store'.history[i].released
    /\ ~(i \in DOMAIN store.history /\ store.history[i].released)

\* C25: a record is released only by a withdrawal made when the batch has
\* served the unbonding period (close time <= now - unbonding_period), and
\* only if every batch between last_processed_batch and it is released by
\* the same call; from the first batch after last_processed_batch that
\* closed after the cutoff, is released already or does not exist, every
\* record is left as it was.
C25_ScanStops ==
    [][/\ \A i \in DOMAIN store'.history :
             (Releases(i) /\ ~RolledBack)
             => /\ WithdrawStep
                /\ i \in DOMAIN store.history
                /\ store.history[i].time <= Cutoff
                /\ \A j \in (store.state.last_processed_batch + 1)..i :
                      Releases(j) /\ ~Stops(j)
       /\ WithdrawStep
          => /\ DOMAIN store'.history = DOMAIN store.history
             /\ \A i \in DOMAIN store.history :
                   i >= StopPoint => store'.history[i] = store.history[i]]_vars

\* A withdrawal has released batch 1 and stopped at batch 2, which closed
\* after the cutoff.
C25_Witness ==
    /\ last.op = "withdraw_unbonded"
    /\ last.err = ""
    /\ 2 \in DOMAIN store.history
    /\ store.history[1].released
    /\ ~store.history[2].released
    /\ store.history[2].time > now - store.params.unbonding_period
    /\ store.state.last_processed_batch = 1

\* The last transaction was an accepted withdrawal and has run to its end.
WithdrawalDone ==
    Idle /\ last.op = "withdraw_unbonded" /\ last.err = ""

\* C26: an accepted withdrawal stores prev_vault_balance = the balance the
\* call read minus its payout, and actual_unbonded_amount = 0; once the
\* payout has been sent the vault's balance equals prev_vault_balance, so a
\* reconciliation that follows with no other movement sees no balance
\* change.
C26_PrevBalanceAfterWithdrawal ==
    [][/\ WithdrawStep
          => /\ Len(last'.msgs) = 1
             /\ store'.state.prev_vault_balance
                   = bank.vault - last'.msgs[1].amount
             /\ store'.state.actual_unbonded_amount = 0
       /\ WithdrawalDone'
          => /\ bank'.vault = store'.state.prev_vault_balance
             /\ AccumulatedUnbonded(store'.state.actual_unbonded_amount,
                                    bank'.vault,
                                    store'.state.prev_vault_balance) = 0]_vars

\* A withdrawal has paid 9 out of a vault of 20 and left prev_vault_balance
\* at 11.
C26_Witness ==
    /\ WithdrawalDone
    /\ last.msgs[1].amount = 9
    /\ bank.vault = 11
    /\ store.state.prev_vault_balance = 11

\* The last transaction was an accepted withdrawal by a, run to its end, and
\* no call has been made since.
WithdrewLast(a) == WithdrawalDone /\ last.sender = a

\* a has a wait entry in a batch the reconciliation of this step covers.
HasEntryToRelease(a) == \E i \in ReconBatches : WaitEntry(store, i, a) > 0

\* C27: when a user whose withdrawal was the last call calls withdrawUnbonded
\* again, with no batch of theirs left to release, the call fails with
\* NoWithdrawableAssetsAvailable, emits no payout and changes nothing; and an
\* accepted withdrawal leaves its caller no wait entry in a released batch,
\* so that no entry is paid twice.
C27_NoDoubleWithdrawal ==
    [][/\ \A a \in Addrs :
             (/\ WithdrewLast(a)
              /\ WithdrawCall
              /\ last'.sender = a
              /\ ~HasEntryToRelease(a))
             => /\ last'.err = "NoWithdrawableAssetsAvailable"
                /\ last'.msgs = <<>>
                /\ UNCHANGED <<store, bank, queue>>
       /\ WithdrawStep
          => \A k \in DOMAIN store'.wait :
                (k[2] = last'.sender /\ k[1] \in DOMAIN store'.history)
                => ~store'.history[k[1]].released]_vars

\* The wait entries of a whose batch is released in s.
ReleasedEntries(w, s, a) ==
    {k \in DOMAIN w :
        k[2] = a /\ k[1] \in DOMAIN s.history /\ s.history[k[1]].released}

\* What a's entries w in the batches 1 .. id are worth at the withdraw
\* rates of s, released batches only.
RECURSIVE WorthUpTo(_, _, _, _)
WorthUpTo(w, s, a, id) ==
    IF id = 0 THEN 0
    ELSE (IF <<id, a>> \in ReleasedEntries(w, s, a)
          THEN MulDec(w[<<id, a>>], s.history[id].withdraw_rate)
          ELSE 0)
         + WorthUpTo(w, s, a, id - 1)

\* C28: an accepted withdrawal emits one payout, a bank send to the caller
\* of the sum, over the caller's wait entries in batches released once the
\* call's reconciliation is done, of entry amount * withdraw_rate; it
\* deletes those entries and leaves every other wait entry, the caller's in
\* unreleased batches and everyone else's, as it was.
C28_Payout ==
    [][WithdrawStep
       => LET a == last'.sender
              paid == ReleasedEntries(store.wait, store', a)
          IN  /\ last'.msgs
                    = <<Msg("BankSend", a,
                            WorthUpTo(store.wait, store', a, MaxBatchId + 1), "")>>
              /\ last'.msgs[1].amount > 0
              /\ paid # {}
              /\ DOMAIN store'.wait = (DOMAIN store.wait) \ paid
              /\ \A k \in DOMAIN store'.wait : store'.wait[k] = store.wait[k]]_vars

\* alice has been paid for batch 1, released, while her entry in batch 2,
\* still open, stays.
C28_Witness ==
    /\ last.op = "withdraw_unbonded"
    /\ last.err = ""
    /\ last.sender = "alice"
    /\ last.msgs[1].amount > 0
    /\ store.history[1].released
    /\ <<1, "alice">> \notin DOMAIN store.wait
    /\ <<2, "alice">> \in DOMAIN store.wait
    /\ store.current_batch.id = 2

(***************************************************************************)
(* Properties of the ledger: the round trip.                               *)
(***************************************************************************)
\* The deposit of the round trip, the receipt tokens minted for it at rate
\* 1.0 and the treasury's share of them.
RoundTripDeposit == 10

RoundTripMinted == decimal_division(RoundTripDeposit, Decimal_one)

RoundTripFee == Fee_compute(TreasuryFeeShare, RoundTripMinted)

\* a has made the round trip up to the withdrawal: its coins are down by the
\* deposit, it holds no receipt token and its one wait entry is the minted
\* amount less the treasury fee.
RoundTripOf(a) ==
    /\ bank.coins[a] = InitialCoins - RoundTripDeposit
    /\ bank.lp[a] = 0
    /\ \E i \in 1..(MaxBatchId + 1) :
          /\ WaitEntry(store, i, a) = RoundTripMinted - RoundTripFee
          /\ \A j \in 1..(MaxBatchId + 1) : j # i => WaitEntry(store, j, a) = 0

\* No slashing and no gain: no loan has left a profit and nothing is
\* deployed outside the vault.
NoDrift == store.profit.last_profit = 0 /\ bank.deployed = 0

\* C29: a user who deposited D at rate 1.0 and unbonded all the receipt
\* tokens minted, with no peg fee and no slashing or gain, is paid by the
\* withdrawal no more than D and no less than D minus the treasury fee's
\* worth, one unit of rounding allowed.
C29_RoundTrip ==
    [][(/\ WithdrawStep
        /\ RoundTripOf(last'.sender)
        /\ NoDrift)
       => /\ last'.msgs[1].amount <= RoundTripDeposit
          /\ last'.msgs[1].amount >= RoundTripDeposit - RoundTripFee - 1]_vars

(***************************************************************************)
(* Properties of governance.                                               *)
(***************************************************************************)
VaultSetters ==
    {"set_luna_cap", "set_fee", "add_to_whitelist", "remove_from_whitelist",
     "update_state", "set_admin"}

DappSetters == {"update_config", "dapp_set_admin", "update_address_book"}

\* The step is a call of an admin-gated operation by someone who is not the
\* admin of the contract called.
CallByStranger ==
    /\ CallStep
    /\ \/ last'.op \in VaultSetters /\ last'.sender # store.admin
       \/ last'.op \in DappSetters /\ last'.sender # store.dapp.admin

\* C30: every admin-gated operation of the vault and of dapp-base, called by
\* anyone but the admin, fails with the admin error and leaves the stored
\* state as it was, whatever its arguments.
C30_AdminGate ==
    [][CallByStranger
       => /\ last'.err = "NotAdmin"
          /\ last'.msgs = <<>>
          /\ store' = store]_vars

\* The step is a call of op by the admin of the dapp.
DappAdminCall(op) ==
    CallStep /\ last'.op = op /\ last'.sender = store.dapp.admin

\* The value a field has after an update given the argument arg.
Updated(arg, old) == IF arg # None THEN arg[1] ELSE old

\* C31: update_config called by the admin with valid addresses sets
\* treasury_address and trader to the values supplied, leaves a field whose
\* argument is None as it was, and changes nothing else; with both arguments
\* None the store is unchanged; a call refused for an invalid address
\* changes nothing.
C31_UpdateConfigFrame ==
    [][DappAdminCall("update_config")
       => LET arg == UpdateConfigArgs[last'.amount]
              valid(a) == a = None \/ a[1] # ""
          IN  IF valid(arg.treasury_address) /\ valid(arg.trader)
              THEN /\ last'.err = ""
                   /\ store'.dapp.state
                         = [treasury_address |->
                                Updated(arg.treasury_address,
                                        store.dapp.state.treasury_address),
                            trader |->
                                Updated(arg.trader, store.dapp.state.trader)]
                   /\ [store' EXCEPT !.dapp.state = store.dapp.state] = store
                   /\ (arg.treasury_address = None /\ arg.trader = None)
                      => store' = store
              ELSE last'.err # "" /\ store' = store]_vars

\* The admin has set the treasury address and left the trader.
C31_Witness ==
    /\ last.op = "update_config"
    /\ last.err = ""
    /\ last.amount = 2
    /\ store.dapp.state.treasury_address = "alice"
    /\ store.dapp.state.trader = "trader"
\* The names an address book can hold in the model.
BookNames == {"pair", "lp", "pool"}

\* The names of a list of (name, address) pairs, and the last address the
\* list gives for a name.
AddedNames(to_add) == {to_add[i][1] : i \in DOMAIN to_add}

LastGiven(to_add, name) ==
    LET places == {i \in DOMAIN to_add : to_add[i][1] = name}
    IN  to_add[CHOOSE i \in places : \A j \in places : j <= i][2]

Listed(names) == {names[i] : i \in DOMAIN names}

\* C32: after update_address_book(to_add, to_remove) by the admin, every name
\* of to_remove is absent, also when to_add names it too; every name of to_add
\* that to_remove does not name maps to the (last) address given for it,
\* whatever it mapped to before; every other entry is as it was; and the
\* lookup of an absent name yields NotFound.
C32_AddressBookUpdate ==
    [][DappAdminCall("update_address_book")
       => LET arg == AddressBookArgs[last'.amount]
              old == store.dapp.address_book
              new == store'.dapp.address_book
          IN  /\ last'.err = ""
              /\ \A name \in BookNames :
                    LET found == load_contract_addr(new, name)
                    IN  IF name \in Listed(arg.to_remove)
                        THEN found.err = "NotFound"
                        ELSE IF name \in AddedNames(arg.to_add)
                        THEN found = [err |-> "",
                                      addr |-> LastGiven(arg.to_add, name)]
                        ELSE found = load_contract_addr(old, name)
              /\ DOMAIN new \subseteq BookNames
              /\ [store' EXCEPT !.dapp.address_book = old] = store]_vars

\* An entry of "lp" is kept while a call that both adds and removes "pair"
\* has left "pair" absent.
C32_Witness ==
    /\ last.op = "update_address_book"
    /\ last.err = ""
    /\ last.amount = 3
    /\ load_contract_addr(store.dapp.address_book, "pair").err = "NotFound"
    /\ load_contract_addr(store.dapp.address_book, "lp").addr = "alice"
(***************************************************************************)
(* Properties of the receive hook.                                         *)
(***************************************************************************)
\* Some wait entry is new or larger after the step.
WaitGrows ==
    \E k \in DOMAIN store'.wait :
        k \notin DOMAIN store.wait \/ store'.wait[k] > store.wait[k]

\* C33: an unbond request is accepted only from the liquidity token contract.
\* A receive hook with an Unbond payload from any other contract fails with
\* Unauthorized and changes no record and no balance; and a wait entry is
\* created or raised only by an accepted receive hook of the liquidity token,
\* whose tokens have left the requester.
C33_UnbondOnlyThroughToken ==
    [][/\ (CallStep /\ last'.op = "receive_cw20"
            /\ last'.data # store.pool_info.liquidity_token)
          => /\ last'.err = "Unauthorized"
             /\ UNCHANGED <<store, bank, queue>>
       /\ (WaitGrows /\ ~RolledBack)
          => /\ CallStep
             /\ last'.op = "receive_cw20"
             /\ last'.data = store.pool_info.liquidity_token
             /\ last'.err = ""
             /\ bank'.lp[last'.sender] = bank.lp[last'.sender] - last'.amount]_vars

\* A holder of receipt tokens has called the hook as another contract and
\* was refused: there is no wait entry.
C33_Witness ==
    /\ last.op = "receive_cw20"
    /\ last.data = "other"
    /\ last.err = "Unauthorized"
    /\ bank.lp[last.sender] >= last.amount
    /\ store.wait = <<>>
(***************************************************************************)
(* Properties of the loan checkpoint.                                      *)
(***************************************************************************)
\* The vault's AfterTrade callback is among the messages still to execute.
AfterTradePending ==
    \E i \in DOMAIN queue :
        queue[i].type = "AfterTrade" /\ queue[i].to = VaultAddr

\* C34: in every committed state last_balance is 0.  The flag is set only
\* inside a transaction that started with the flag clear and that still has
\* the vault's after-trade callback to execute, so the transaction either
\* commits after after-trade has zeroed the flag or is rolled back to a state
\* where it is 0.
C34_FlagClearWhenCommitted ==
    /\ Idle => store.profit.last_balance = 0
    /\ LoanInFlight
          => /\ saved.active
             /\ saved.store.profit.last_balance = 0
             /\ AfterTradePending

\* A loan has been settled and its transaction has committed with a profit.
C34_Witness ==
    /\ Idle
    /\ last.op = "after_trade"
    /\ last.err = ""
    /\ store.profit.last_profit > 0
    /\ store.profit.last_balance = 0

\* C35: every accepted flashLoan leaves last_balance strictly positive: the
\* snapshot is the valuation, which passed the funds check and so is at least
\* the requested amount plus the tax buffer plus the rounding compensation.
\* This includes a loan of amount 0.
C35_SnapshotIsPositive ==
    [][(CallStep /\ last'.op = "flash_loan" /\ last'.err = "")
       => /\ store'.profit.last_balance = Valuation(bank)
          /\ store'.profit.last_balance
                >= last'.amount
                   + 2 * compute_tax([denom |-> last'.denom, amount |-> last'.amount])
                   + ROUNDING_ERR_COMPENSATION
          /\ store'.profit.last_balance > 0]_vars

\* A loan of amount 0 was accepted.
C35_Witness ==
    /\ last.op = "flash_loan"
    /\ last.err = ""
    /\ last.amount = 0
    /\ store.profit.last_balance > 0
(***************************************************************************)
(* Properties of the history of closed batches.                            *)
(***************************************************************************)
\* C36: history records exist exactly for the ids from the initial batch id
\* to CurrentBatch.id - 1, each under its own id; last_processed_batch is
\* below CurrentBatch.id; and a record is released exactly when its id is at
\* most last_processed_batch.
C36_HistoryIsContiguous ==
    /\ DOMAIN store.history = InitialBatchId .. (store.current_batch.id - 1)
    /\ store.state.last_processed_batch < store.current_batch.id
    /\ \A i \in DOMAIN store.history :
          /\ store.history[i].batch_id = i
          /\ store.history[i].released <=> i <= store.state.last_processed_batch

\* Two batches are closed, the first released and the second not.
C36_Witness ==
    /\ Idle
    /\ store.current_batch.id = InitialBatchId + 2
    /\ store.state.last_processed_batch = InitialBatchId
    /\ store.history[InitialBatchId].released
    /\ ~store.history[InitialBatchId + 1].released
\* C37: whenever a call of withdrawUnbonded finds batches to reconcile, their
\* total provisional amount is above zero and each of them has an amount
\* above zero, so that the reconciliation divides by neither and does not
\* abort on a zero denominator.
C37_NoZeroDenominator ==
    [][(WithdrawCall /\ now >= store.params.unbonding_period
        /\ ReconBatches # {})
       => /\ ReconTotal > 0
          /\ \A i \in ReconBatches : store.history[i].amount > 0
          /\ Reconciliation.err # "Panic"]_vars
\* C38: a call of withdrawUnbonded that fails commits nothing of its
\* reconciliation.  When the reconciliation itself goes through and the
\* caller then has nothing to withdraw, the call fails with
\* NoWithdrawableAssetsAvailable; and after any failed call every record
\* (released marks, withdraw rates, the pointer, the accumulator), every
\* balance and the pending messages are as before.
C38_FailedWithdrawCommitsNothing ==
    [][WithdrawCall
       => LET payout == get_finished_amount(Reconciliation.store, last'.sender)
          IN  /\ (/\ now >= store.params.unbonding_period
                  /\ Reconciliation.err = ""
                  /\ payout = 0)
                 => last'.err = "NoWithdrawableAssetsAvailable"
              /\ last'.err # "" => UNCHANGED <<store, bank, queue>>]_vars

\* A caller with nothing to withdraw was refused while a batch was due: the
\* batch is still unreleased and the accumulator still holds what was
\* received for it.
C38_Witness ==
    /\ last.op = "withdraw_unbonded"
    /\ last.err = "NoWithdrawableAssetsAvailable"
    /\ Qualifies(store, store.state.last_processed_batch + 1,
                 now - store.params.unbonding_period)
(***************************************************************************)
(* Properties of a loan taken by the arbitrage contract.                   *)
(***************************************************************************)
ArbMsgTypes == {"Execute", "MarketSwap", "AstroSwap", "ArbCallback", "ArbBankSend"}

\* Every message of the borrower still to execute stands before the vault's
\* AfterTrade callback.
BorrowerBeforeAfterTrade ==
    \A i, j \in DOMAIN queue :
        (queue[i].type \in ArbMsgTypes /\ queue[j].type = "AfterTrade") => i < j

\* The head of the queue, a message of the given type, is executed.
Executes(type) == queue # <<>> /\ Head(queue).type = type /\ queue' # queue

\* C39: in a flash loan taken by the arbitrage contract the peg callback is
\* accepted only from the vault; accepted, it schedules two swaps and then
\* the contract's own callback, ahead of everything else pending; that
\* callback sends the contract's whole balance of the base asset to the
\* vault; and all of this has executed when the vault's AfterTrade check
\* runs: nothing of the borrower is pending then and its balance is with the
\* vault.
C39_ArbEffectsBeforeAfterTrade ==
    [][/\ BorrowerBeforeAfterTrade'
       /\ (CallStep /\ last'.op = "arb_peg_callback")
          => IF last'.sender = VaultAddr /\ bank.coins[ArbAddr] >= last'.amount
             THEN /\ last'.err = ""
                  /\ Len(last'.msgs) = 3
                  /\ {last'.msgs[1].type, last'.msgs[2].type}
                        = {"MarketSwap", "AstroSwap"}
                  /\ last'.msgs[3] = Msg("ArbCallback", ArbAddr, 0, "")
                  /\ queue' = last'.msgs \o Tail(queue)
             ELSE /\ last'.err = (IF last'.sender = VaultAddr
                                  THEN "Broke" ELSE "Unauthorized")
                  /\ store' = store
                  /\ bank' = (IF saved.active THEN saved.bank ELSE bank)
                  /\ queue' = <<>>
       /\ Executes("ArbCallback")
          => /\ last'.msgs = <<Msg("ArbBankSend", VaultAddr, bank.coins[ArbAddr], "")>>
             /\ queue' = last'.msgs \o Tail(queue)
       /\ Executes("ArbBankSend")
          => /\ bank'.coins[ArbAddr] = 0
             /\ bank'.vault = bank.vault + bank.coins[ArbAddr]
       /\ Executes("AfterTrade")
          => /\ \A i \in DOMAIN queue : queue[i].type \notin ArbMsgTypes
             /\ bank.coins[ArbAddr] = 0]_vars

\* The contract has sent back the loan and its gain, and AfterTrade is next.
C39_Witness ==
    /\ AtAfterTrade
    /\ last.op = "arb_callback"
    /\ last.sender = ArbAddr
    /\ last.err = ""
    /\ bank.coins[ArbAddr] = 0
    /\ bank.vault > store.profit.last_balance
(***************************************************************************)
(* Properties of the whitelist.                                            *)
(***************************************************************************)
NoDuplicates(list) ==
    \A i, j \in DOMAIN list : list[i] = list[j] => i = j

\* The step is a call of op by the admin of the vault.
VaultAdminCall(op) ==
    CallStep /\ last'.op = op /\ last'.sender = store.admin

\* C40: the whitelist holds no address twice and at most LIST_SIZE_LIMIT
\* addresses.  Adding an address already listed fails with
\* AlreadyWhitelisted, adding to a full list with WhitelistLimitReached,
\* removing an address not listed with NotWhitelisted, each leaving the list
\* as it was; an accepted addition appends the address and an accepted
\* removal leaves no occurrence of it and every other address in place.
C40_Whitelist ==
    [][LET list == store.state.whitelisted_contracts
           list2 == store'.state.whitelisted_contracts
           addr == WhitelistArgs[last'.amount]
       IN  /\ NoDuplicates(list2)
           /\ Len(list2) <= LIST_SIZE_LIMIT
           /\ VaultAdminCall("add_to_whitelist")
              => IF Contains(list, addr)
                 THEN last'.err = "AlreadyWhitelisted" /\ store' = store
                 ELSE IF Len(list) >= LIST_SIZE_LIMIT
                 THEN last'.err = "WhitelistLimitReached" /\ store' = store
                 ELSE last'.err = "" /\ list2 = Append(list, addr)
           /\ VaultAdminCall("remove_from_whitelist")
              => IF ~Contains(list, addr)
                 THEN last'.err = "NotWhitelisted" /\ store' = store
                 ELSE /\ last'.err = ""
                      /\ ~Contains(list2, addr)
                      /\ list2 = SelectSeq(list, LAMBDA a : a # addr)]_vars

\* The list is full and a further address was refused.
C40_Witness ==
    /\ last.op = "add_to_whitelist"
    /\ last.err = "WhitelistLimitReached"
    /\ Len(store.state.whitelisted_contracts) = LIST_SIZE_LIMIT
    /\ NoDuplicates(store.state.whitelisted_contracts)
====
